---- MODULE Spec2Model ----
(***************************************************************************)
(* A model of maya_tools: the attribute and name utilities, run against a  *)
(* small model of the host scene (one node "test" with its user-defined    *)
(* attributes and lock flags, a source and a destination node for copy, a  *)
(* DAG of named nodes and one object set), and, each with the part of the  *)
(* scene it works on, selection.keep and mirror, history.undo, with_maya,  *)
(* hierarchy.make, skincluster, joint.auto_radius, visibility.is_visible,  *)
(* curve.from_transforms, attribute.write_data / read_data and reset.      *)
(* Every component has its own specification over the shared variables.   *)
(*                                                                         *)
(* Names are sequences of one-character strings, so that formatting,       *)
(* padding, substring tests and wildcard matches are computed, not assumed.*)
(* Python list indices are 0-based; the sequences here are 1-based, so the *)
(* code's `index` is `index - 1` of the model.                             *)
(***************************************************************************)
EXTENDS Integers, Sequences, FiniteSets, TLC

VARIABLES
    userAttrs,  \* cmds.listAttr(node, userDefined=True): the channel box order
    locked,     \* the attributes of the node whose lock flag is on
    call,       \* the last call: operation and arguments
    ret,        \* its outcome: the exception raised (or "none"), the value returned
    sepLog,     \* history: plugs returned by add_separator since the last deletion
    nodes,      \* the DAG nodes of the scene, each by its full path
    setExists,  \* cmds.objExists(set_name)
    setMembers, \* the members of the object set set_name
    uPc,        \* name.unique: "idle", or "loop" inside the while loop
    uName,      \* name.unique: its local `name`
    uCount,     \* name.unique: its local `count`
    uIndex,     \* name.unique: its local `index`
    uGen,       \* name.unique: its local `generated`
    srcAttrs,   \* copy: listAttr(source, userDefined=True)
    srcVal,     \* copy: the values of the source's attributes
    dstAttrs,   \* copy: listAttr(destination, userDefined=True)
    dstVal,     \* copy: the values of the destination's attributes
    ulPc,       \* unlock: "idle", or "block" while the with-block runs
    ulPlugs,    \* unlock: its local dictionary `plugs`
    ulArg,      \* history: the `attributes` argument unlock was entered with
    ulEntry,    \* history: the locked attributes when unlock was entered
    selection,  \* cmds.ls(selection=True): the selected nodes, in order
    keepStack,  \* keep: the local `selection` of each running keep(), outermost first
    keepEntry,  \* history: the selection each running keep() was entered with
    chunks,     \* the open undo chunks of the host, by name, innermost last
    undoStack,  \* undo: the local `name` of each running undo(), outermost first
    undoEntry,  \* history: the open chunks each running undo() was entered with
    hostVersion,\* cmds.about(version=True): the text of the host's version
    funcCalls,  \* the number of calls the decorated function received
    funcLast,   \* the argument of the last call the decorated function received
    skcName,    \* findRelatedSkinCluster(node): the skincluster of the mesh, <<>> for none
    skcInfluences, \* cmds.skinCluster(skc, query=True, influence=True)
    skcWeighted,   \* the influences with a non-zero weight on some vertex
    skcMethod,  \* the skinMethod of the skincluster
    jParent,    \* the joints of the scene, each with its parent ("" for the world)
    jRadius,    \* the radius attribute of each joint, in tenths
    hidden,     \* the DAG nodes whose visibility attribute is off
    tPos,       \* the world position of each transform a curve is made from
    curveFlags, \* the flags of the last cmds.curve call, no point before the first
    curveRig,   \* what from_transforms built around its last curve
    dataAttrs,  \* the string attributes of the node "data", each with its value
    dataLast,   \* history: the data and the flag of the last write_data on each
    rValue,     \* reset: the value of each numeric attribute of the node
    rLocked     \* reset: the attributes of the node whose lock flag is on

attrVars == <<userAttrs, locked, sepLog>>
sceneVars == <<nodes, setExists, setMembers>>
uniqueVars == <<uPc, uName, uCount, uIndex, uGen>>
copyVars == <<srcAttrs, srcVal, dstAttrs, dstVal>>
unlockVars == <<ulPc, ulPlugs, ulArg, ulEntry>>

selVars == <<selection, keepStack, keepEntry>>

\* The variables of the components that come after a given one.
undoVars == <<chunks, undoStack, undoEntry>>
mayaVars == <<hostVersion, funcCalls, funcLast>>
skinVars == <<skcName, skcInfluences, skcWeighted, skcMethod>>
jointVars == <<jParent, jRadius>>
visVars == <<hidden>>
curveVars == <<tPos, curveFlags, curveRig>>
dataVars == <<dataAttrs, dataLast>>
resetVars == <<rValue, rLocked>>
afterData == <<resetVars>>
afterCurve == <<dataVars, afterData>>
afterVis == <<curveVars, afterCurve>>
afterJoint == <<visVars, afterVis>>
afterSkin == <<jointVars, afterJoint>>
afterMaya == <<skinVars, afterSkin>>
afterUndo == <<mayaVars, afterMaya>>
afterSel == <<undoVars, afterUndo>>
afterUnlock == <<selVars, afterSel>>

\* What attribute, name and copy leave alone, whatever they do.
extVars == <<unlockVars, afterUnlock>>

\* The node "test", the scene, unique's locals and the two nodes of copy.
baseVars == <<attrVars, sceneVars, uniqueVars, copyVars>>

vars == <<call, ret, attrVars, sceneVars, uniqueVars, copyVars, extVars>>

----------------------------------------------------------------------------
(* Bounds.                                                                 *)

\* The number of user-defined attributes the node "test" may hold.
MaxAttrs == 3

----------------------------------------------------------------------------
(* Generic helpers on sequences.                                           *)

Range(s) == {s[i] : i \in 1..Len(s)}

\* list.index(x), 1-based; 0 stands for the ValueError of a missing element.
IndexOf(s, x) ==
    IF x \in Range(s) THEN CHOOSE i \in 1..Len(s) : s[i] = x /\ \A j \in 1..(i-1) : s[j] # x
    ELSE 0

\* [y for y in s if y != x]
Without(s, x) == SelectSeq(s, LAMBDA y : y # x)

\* `needle in hay` for Python strings.
Contains(hay, needle) ==
    \E p \in 0..(Len(hay) - Len(needle)) :
        \A k \in 1..Len(needle) : hay[p + k] = needle[k]

DigitChars == <<"0", "1", "2", "3", "4", "5", "6", "7", "8", "9">>

\* str(i) for i >= 0.
RECURSIVE Digits(_)
Digits(i) == IF i < 10 THEN <<DigitChars[i + 1]>>
             ELSE Digits(i \div 10) \o <<DigitChars[(i % 10) + 1]>>

RECURSIVE Zeros(_)
Zeros(n) == IF n <= 0 THEN <<>> ELSE <<"0">> \o Zeros(n - 1)

\* str.zfill(width)
ZFill(s, width) == Zeros(width - Len(s)) \o s

----------------------------------------------------------------------------
(* The node "test": attributes, locks.                                     *)

Letters == <<"A", "B", "C", "D", "E", "F", "G">>

\* The names cmds.addAttr(node, longName=...) is called with in the tests.
UserNames == {<<Letters[i]>> : i \in 1..MaxAttrs}

\* A built-in attribute of a transform: never in listAttr(userDefined=True).
TranslateX == <<"translateX">>

NoCall == [op |-> "none", attr |-> <<>>, where |-> "", index |-> 0, flags |-> {}]
NoRet  == [exc |-> "none", log |-> FALSE, plug |-> <<>>]

\* cmds.objExists("node.attr")
PlugExists(attrs, attr) == attr \in Range(attrs) \cup {TranslateX}

----------------------------------------------------------------------------
(* attribute.unlock                                                        *)

\* attributes = attributes or cmds.listAttr(node, locked=True) or []
UnlockTargets(attributes, lockedNow) ==
    IF attributes # {} THEN attributes ELSE lockedNow

\* A dictionary that records every target as locked.
UnlockStoreLocked(targets, lockedNow) == [p \in targets |-> TRUE]

\* plugs[plug] = cmds.getAttr(plug, lock=True)
UnlockStore(targets, lockedNow) == [p \in targets |-> p \in lockedNow]

\* for plug in plugs: cmds.setAttr(plug, lock=False)
UnlockEnter(plugs, lockedNow) == lockedNow \ DOMAIN plugs

\* A finally that restores nothing.
UnlockExitNoRestore(plugs, lockedNow) == lockedNow

\* finally: for plug, value in plugs.items(): cmds.setAttr(plug, lock=value)
UnlockExit(plugs, lockedNow) ==
    (lockedNow \ {p \in DOMAIN plugs : ~plugs[p]}) \cup {p \in DOMAIN plugs : plugs[p]}

----------------------------------------------------------------------------
(* attribute.move                                                          *)

Directions == {"top", "up", "down", "bottom"}

\* The directions the model calls move with: the four supported ones and one
\* that is not (the test's).
Wheres == Directions \cup {"invalid"}

\* to_last: cmds.deleteAttr(node, attribute=attr) then cmds.undo(). The host
\* refuses to delete a locked attribute (RuntimeError); the undo puts the
\* deleted attribute back after all the others.
ToLast(st, lockedNow, attr) ==
    IF st.exc # "none" THEN st
    ELSE IF attr \in lockedNow THEN [st EXCEPT !.exc = "RuntimeError"]
    ELSE [st EXCEPT !.order = Without(st.order, attr) \o <<attr>>]

\* for attribute_ in attrs: to_last(attribute_)
RECURSIVE ToLastAll(_, _, _)
ToLastAll(st, lockedNow, attrs) ==
    IF attrs = <<>> THEN st
    ELSE ToLastAll(ToLast(st, lockedNow, Head(attrs)), lockedNow, Tail(attrs))

\* An `up` that forgets the attribute right after the moved one.
UpTargetsSkipOne(list, index) ==
    <<list[index - 1]>> \o SubSeq(list, index + 2, Len(list))

\* where == "up": attribute_list[index - 1], then attribute_list[index + 1:]
UpTargets(list, index) ==
    <<list[index - 1]>> \o SubSeq(list, index + 1, Len(list))

\* where == "down": attribute, then attribute_list[index + 2:]
DownTargets(list, index) ==
    <<list[index]>> \o SubSeq(list, index + 2, Len(list))

\* An `else` that returns instead of raising.
UnsupportedIgnored(st, where) == st

\* else: raise ValueError("Direction not supported: '{}'.".format(where))
Unsupported(st, where) == [st EXCEPT !.exc = "ValueError"]

\* The body of `with unlock(node):`; returns the order and the exception raised.
MoveBlock(list, attribute, index, where, lockedNow) ==
    LET st0 == [order |-> list, exc |-> "none"] IN
    CASE where = "top" ->
            IF attribute = list[1] THEN st0
            ELSE ToLastAll(st0, lockedNow, Without(list, attribute))
      [] where = "up" ->
            IF attribute = list[1] THEN st0
            ELSE ToLastAll(st0, lockedNow, UpTargets(list, index))
      [] where = "down" ->
            IF attribute = list[Len(list)] THEN st0
            ELSE ToLastAll(st0, lockedNow, DownTargets(list, index))
      [] where = "bottom" ->
            IF attribute = list[Len(list)] THEN st0
            ELSE ToLast(st0, lockedNow, attribute)
      [] OTHER -> Unsupported(st0, where)

\* move(plug, where): the new order, the new locks and the outcome.
MoveResult(list, lockedNow, attribute, where) ==
    LET index == IndexOf(list, attribute) IN
    IF index = 0
    THEN \* except ValueError: LOG.error(...); return
         [order |-> list, locked |-> lockedNow, exc |-> "none", log |-> TRUE, index |-> 0, flags |-> {}]
    ELSE LET plugs == UnlockStore(UnlockTargets({}, lockedNow), lockedNow)
             inside == UnlockEnter(plugs, lockedNow)
             st == MoveBlock(list, attribute, index, where, inside)
         IN  [order |-> st.order, locked |-> UnlockExit(plugs, inside),
              exc |-> st.exc, log |-> FALSE, index |-> index]

Move(attribute, where) ==
    LET r == MoveResult(userAttrs, locked, attribute, where) IN
    /\ userAttrs' = r.order
    /\ locked' = r.locked
    /\ call' = [op |-> "move", attr |-> attribute, where |-> where, index |-> r.index, flags |-> {}]
    /\ ret' = [exc |-> r.exc, log |-> r.log, plug |-> <<>>]
    /\ UNCHANGED <<sepLog, sceneVars, uniqueVars, copyVars, extVars>>

----------------------------------------------------------------------------
(* The host commands the tests drive the node with.                        *)

\* cmds.addAttr(node, longName=name): a new attribute comes last.
AddAttr(name) ==
    /\ Len(userAttrs) < MaxAttrs
    /\ ~PlugExists(userAttrs, name)
    /\ userAttrs' = Append(userAttrs, name)
    /\ call' = [op |-> "addAttr", attr |-> name, where |-> "", index |-> 0, flags |-> {}]
    /\ ret' = NoRet
    /\ UNCHANGED <<locked, sepLog, sceneVars, uniqueVars, copyVars, extVars>>

\* cmds.deleteAttr(node, attribute=name), of an unlocked user attribute.
DeleteAttr(name) ==
    /\ name \in Range(userAttrs)
    /\ name \notin locked
    /\ userAttrs' = Without(userAttrs, name)
    /\ sepLog' = {}
    /\ call' = [op |-> "deleteAttr", attr |-> name, where |-> "", index |-> 0, flags |-> {}]
    /\ ret' = NoRet
    /\ UNCHANGED <<locked, sceneVars, uniqueVars, copyVars, extVars>>

\* cmds.setAttr(plug, lock=value)
SetLock(name, value) ==
    /\ PlugExists(userAttrs, name)
    /\ locked' = IF value THEN locked \cup {name} ELSE locked \ {name}
    /\ call' = [op |-> "setLock", attr |-> name, where |-> "", index |-> 0, flags |-> {}]
    /\ ret' = NoRet
    /\ UNCHANGED <<userAttrs, sepLog, sceneVars, uniqueVars, copyVars, extVars>>

InitAttr ==
    /\ userAttrs = <<>>
    /\ locked = {}
    /\ call = NoCall
    /\ ret = NoRet
    /\ sepLog = {}

\* A new scene: no DAG node of the names the model uses, no set.
InitScene ==
    /\ nodes = {}
    /\ setExists = FALSE
    /\ setMembers = {}

InitUnique ==
    /\ uPc = "idle"
    /\ uName = <<>>
    /\ uCount = 0
    /\ uIndex = 0
    /\ uGen = <<>>

\* A source and a destination transform without user-defined attributes.
InitCopy ==
    /\ srcAttrs = <<>>
    /\ srcVal = <<>>
    /\ dstAttrs = <<>>
    /\ dstVal = <<>>

\* No with-block is running.
InitUnlock ==
    /\ ulPc = "idle"
    /\ ulPlugs = <<>>
    /\ ulArg = {}
    /\ ulEntry = {}

\* Nothing is selected and no keep() is running.
InitSel ==
    /\ selection = <<>>
    /\ keepStack = <<>>
    /\ keepEntry = <<>>

\* No undo chunk is open.
InitUndo ==
    /\ chunks = <<>>
    /\ undoStack = <<>>
    /\ undoEntry = <<>>

\* A host of version 10; the decorated function has not been called.
InitMaya ==
    /\ hostVersion = <<"1", "0">>
    /\ funcCalls = 0
    /\ funcLast = 0

\* A mesh without skincluster.
InitSkin ==
    /\ skcName = <<>>
    /\ skcInfluences = <<>>
    /\ skcWeighted = {}
    /\ skcMethod = 0

\* No joint.
InitJoint ==
    /\ jParent = <<>>
    /\ jRadius = <<>>

\* Every node is visible.
InitVis == hidden = {}

\* Three transforms at the origin, no curve.
InitCurve ==
    /\ tPos = [t \in {"a", "b", "c"} |-> <<0, 0, 0>>]
    /\ curveFlags = [point |-> <<>>, degree |-> 0, periodic |-> FALSE, knot |-> <<>>]
    /\ curveRig = [fit |-> FALSE, history |-> FALSE, drivers |-> <<>>]

\* The node "data" has no string attribute.
InitData ==
    /\ dataAttrs = <<>>
    /\ dataLast = <<>>

\* A new transform: every numeric attribute at its default, nothing locked.
InitReset ==
    /\ rValue = [a \in {"translateX", "scaleX"} |-> IF a = "scaleX" THEN 1 ELSE 0]
    /\ rLocked = {}

InitExt ==
    /\ InitUnlock /\ InitSel /\ InitUndo /\ InitMaya /\ InitSkin /\ InitJoint
    /\ InitVis /\ InitCurve /\ InitData /\ InitReset

Init == InitAttr /\ InitScene /\ InitUnique /\ InitCopy /\ InitExt

MoveTargets == UserNames \cup {TranslateX}

NextMove ==
    \/ \E a \in UserNames : AddAttr(a)
    \/ \E a \in UserNames : DeleteAttr(a)
    \/ \E a \in MoveTargets, v \in BOOLEAN : SetLock(a, v)
    \/ \E a \in MoveTargets, w \in Wheres : Move(a, w)

SpecMove == Init /\ [][NextMove]_vars

----------------------------------------------------------------------------
(* attribute.add_separator                                                 *)

\* The `name` templates the model calls add_separator with, as sequences of
\* symbols: "{", "}", the word "index", the format spec ":02", letters.
TplPlain  == <<"d", "{", "index", "}">>           \* "d{index}"
TplPadded == <<"d", "{", "index", ":02", "}">>    \* "d{index:02}"
TplNone   == <<"d">>                              \* "d"
TplOther  == <<"d", "{", "s", "}">>               \* "d{s}"
TplLonger == <<"d", "{", "index", "s", "}">>      \* "d{indexs}"
TplOpen   == <<"d", "{", "index">>                \* "d{index"

Templates == {TplPlain, TplPadded, TplNone, TplOther, TplLonger, TplOpen}

FormatSpecs == {":02"}

\* The value of the `index` field under a format spec.
FormatInt(i, spec) ==
    IF spec = <<>> THEN Digits(i)
    ELSE IF spec = <<":02">> THEN ZFill(Digits(i), 2)
    ELSE Digits(i)

\* One replacement field "{...}" of str.format(node, index=i): the text it
\* gives, or the exception it raises.
FormatField(field, i) ==
    LET cut == IF \E k \in 1..Len(field) : field[k] \in FormatSpecs
               THEN CHOOSE k \in 1..Len(field) :
                        field[k] \in FormatSpecs /\ \A j \in 1..(k-1) : field[j] \notin FormatSpecs
               ELSE Len(field) + 1
        fname == SubSeq(field, 1, cut - 1)
        fspec == SubSeq(field, cut, Len(field))
    IN  IF "{" \in Range(field) THEN [exc |-> "ValueError", str |-> <<>>]
        ELSE IF fname = <<>> THEN [exc |-> "IndexError", str |-> <<>>]
        ELSE IF fname = <<"index">> THEN [exc |-> "none", str |-> FormatInt(i, fspec)]
        ELSE [exc |-> "KeyError", str |-> <<>>]

\* "{{}}.{}".format(name).format(node, index=i), without the "node." prefix:
\* the attribute part of the plug, or the exception str.format raises.
RECURSIVE PyFormat(_, _, _, _)
PyFormat(name, p, i, acc) ==
    IF p > Len(name) THEN [exc |-> "none", str |-> acc]
    ELSE IF name[p] = "{" THEN
        IF p < Len(name) /\ name[p + 1] = "{"
        THEN PyFormat(name, p + 2, i, acc \o <<"{">>)
        ELSE IF ~\E q \in (p+1)..Len(name) : name[q] = "}"
        THEN [exc |-> "ValueError", str |-> <<>>]
        ELSE LET q == CHOOSE q \in (p+1)..Len(name) :
                          name[q] = "}" /\ \A j \in (p+1)..(q-1) : name[j] # "}"
                 f == FormatField(SubSeq(name, p + 1, q - 1), i)
             IN  IF f.exc # "none" THEN f
                 ELSE PyFormat(name, q + 1, i, acc \o f.str)
    ELSE IF name[p] = "}" THEN
        IF p < Len(name) /\ name[p + 1] = "}"
        THEN PyFormat(name, p + 2, i, acc \o <<"}">>)
        ELSE [exc |-> "ValueError", str |-> <<>>]
    ELSE PyFormat(name, p + 1, i, acc \o <<name[p]>>)

\* A search that starts at index 1.
FirstIndexOne == 1

\* index = 0
FirstIndex == 0

\* plug = base_name.format(node, index=index)
\* while cmds.objExists(plug): index += 1; plug = base_name.format(...)
RECURSIVE SepSearch(_, _, _)
SepSearch(attrs, name, index) ==
    LET f == PyFormat(name, 1, index, <<>>) IN
    IF f.exc # "none" THEN [exc |-> f.exc, plug |-> <<>>, index |-> index]
    ELSE IF PlugExists(attrs, f.str) THEN SepSearch(attrs, name, index + 1)
    ELSE [exc |-> "none", plug |-> f.str, index |-> index]

\* add_separator(node, name=name): the outcome of the call.
SeparatorResult(attrs, name) ==
    IF ~Contains(name, <<"{", "index">>)
    THEN [exc |-> "ValueError", plug |-> <<>>, index |-> 0, flags |-> {}]
    ELSE SepSearch(attrs, name, FirstIndex)

AddSeparator(name) ==
    LET r == SeparatorResult(userAttrs, name) IN
    /\ r.exc = "none" => Len(userAttrs) < MaxAttrs
    /\ userAttrs' = IF r.exc = "none" THEN Append(userAttrs, r.plug) ELSE userAttrs
    /\ sepLog' = IF r.exc = "none" THEN sepLog \cup {r.plug} ELSE sepLog
    /\ call' = [op |-> "add_separator", attr |-> name, where |-> "", index |-> r.index, flags |-> {}]
    /\ ret' = [exc |-> r.exc, log |-> FALSE, plug |-> r.plug]
    /\ UNCHANGED <<locked, sceneVars, uniqueVars, copyVars, extVars>>

\* The attributes add_separator can have created within the bounds.
SeparatorNames ==
    {PyFormat(t, 1, i, <<>>).str : t \in {TplPlain, TplPadded}, i \in 0..MaxAttrs}

NextSep ==
    \/ \E t \in Templates : AddSeparator(t)
    \/ \E a \in SeparatorNames : DeleteAttr(a)

SpecSep == Init /\ [][NextSep]_vars

----------------------------------------------------------------------------
(* Claims on attribute.move and attribute.add_separator.                   *)

\* C1: a move step reorders the user-defined attributes as documented: 'up'
\* (not first) swaps the attribute with its predecessor, 'down' (not last)
\* with its successor, 'top' (not first) puts it first and 'bottom' (not
\* last) puts it last, keeping the relative order of the others; every move
\* leaves a permutation of the order it found.
C1_MoveReorders ==
    [][call'.op = "move" =>
        LET L == userAttrs
            R == userAttrs'
            a == call'.attr
            w == call'.where
            n == Len(L)
            i == IndexOf(L, a)
        IN  /\ Len(R) = n
            /\ Range(R) = Range(L)
            /\ Cardinality(Range(R)) = n
            /\ (i > 1 /\ w = "up") =>
                   R = [L EXCEPT ![i - 1] = L[i], ![i] = L[i - 1]]
            /\ (i > 0 /\ i < n /\ w = "down") =>
                   R = [L EXCEPT ![i] = L[i + 1], ![i + 1] = L[i]]
            /\ (i > 1 /\ w = "top") =>
                   /\ R[1] = a
                   /\ \A k \in 2..n : R[k] = IF k <= i THEN L[k - 1] ELSE L[k]
            /\ (i > 0 /\ i < n /\ w = "bottom") =>
                   /\ R[n] = a
                   /\ \A k \in 1..(n - 1) : R[k] = IF k < i THEN L[k] ELSE L[k + 1]
    ]_vars

\* C1 witness: an 'up' of the middle one of three attributes, one of them
\* locked, has put it first.
C1_Witness ==
    /\ call.op = "move" /\ call.where = "up" /\ call.index = 2
    /\ Len(userAttrs) = 3 /\ userAttrs[1] = call.attr
    /\ locked # {} /\ ret.exc = "none"

\* C2: a move that cannot apply (first attribute up or to the top, last
\* attribute down or to the bottom, a plug that is no user-defined attribute)
\* leaves the order as it was and raises nothing; no move changes a lock.
C2_MoveNotApplicable ==
    [][call'.op = "move" =>
        LET L == userAttrs
            w == call'.where
            i == IndexOf(L, call'.attr)
        IN  /\ locked' = locked
            /\ (\/ i = 0
                \/ i = 1 /\ w \in {"top", "up"}
                \/ i = Len(L) /\ w \in {"down", "bottom"})
                   => (userAttrs' = L /\ ret'.exc = "none")
    ]_vars

\* C2 witness: the first of several attributes was moved 'up' while an
\* attribute of the node was locked.
C2_Witness ==
    /\ call.op = "move" /\ call.where = "up" /\ call.index = 1
    /\ Len(userAttrs) >= 2 /\ userAttrs[1] = call.attr
    /\ locked \cap Range(userAttrs) # {} /\ ret.exc = "none"

\* C3 as stated: move raises ValueError for every unsupported direction,
\* whatever the plug.
C3_ValueErrorAnyPlug ==
    (call.op = "move" /\ call.where \notin Directions) => ret.exc = "ValueError"

\* C3 amended: for an unsupported direction, move raises ValueError exactly
\* when the plug is a user-defined attribute of the node; for any other plug
\* it logs an error and returns.
C3_ValueErrorUserPlug ==
    (call.op = "move" /\ call.where \notin Directions) =>
        /\ ret.exc = "ValueError" <=> call.attr \in Range(userAttrs)
        /\ call.attr \notin Range(userAttrs) => (ret.exc = "none" /\ ret.log)

\* C3 witness: an unsupported direction on a user-defined attribute raised.
C3_Witness ==
    /\ call.op = "move" /\ call.where = "invalid"
    /\ call.attr \in Range(userAttrs) /\ ret.exc = "ValueError"

\* The name holds an `index` replacement field: "{index}" or "{index:spec}".
HasIndexField(name) ==
    \E p \in 1..Len(name) :
        /\ name[p] = "{"
        /\ p + 2 <= Len(name)
        /\ name[p + 1] = "index"
        /\ \/ name[p + 2] = "}"
           \/ name[p + 2] \in FormatSpecs /\ p + 3 <= Len(name) /\ name[p + 3] = "}"

\* C4: add_separator with a well-formed template succeeds; the plug it
\* returns is the template formatted with the smallest index whose plug did
\* not exist before the call, it is appended to the node's attributes, and it
\* was not returned by an earlier call since the last deletion.
C4_SmallestFreeIndex ==
    [][call'.op = "add_separator" =>
        LET name == call'.attr
            before == Range(userAttrs)
        IN  /\ HasIndexField(name) => ret'.exc = "none"
            /\ ret'.exc = "none" =>
                /\ \E i \in 0..Len(userAttrs) :
                       /\ PyFormat(name, 1, i, <<>>) = [exc |-> "none", str |-> ret'.plug]
                       /\ \A j \in 0..(i - 1) : PyFormat(name, 1, j, <<>>).str \in before
                /\ ret'.plug \notin before
                /\ ret'.plug \notin sepLog
                /\ userAttrs' = Append(userAttrs, ret'.plug)
    ]_vars

\* C4 witness: after a deletion, a call has taken index 0 again while a
\* separator of the same template with a higher index is on the node.
C4_Witness ==
    /\ call.op = "add_separator" /\ ret.exc = "none" /\ call.index = 0
    /\ sepLog = {ret.plug}
    /\ \E k \in 1..MaxAttrs : PyFormat(call.attr, 1, k, <<>>).str \in Range(userAttrs)

\* C5 as stated: a name without the {index} replacement field makes
\* add_separator raise ValueError and add nothing.
C5_NoFieldValueError ==
    [][(call'.op = "add_separator" /\ ~HasIndexField(call'.attr)) =>
        (ret'.exc = "ValueError" /\ userAttrs' = userAttrs)
    ]_vars

----------------------------------------------------------------------------
(* The scene: DAG nodes. A node is its full path, a sequence of names from  *)
(* the root down; a name is a sequence of characters.                      *)

\* The number of DAG nodes the scene may hold.
MaxNodes == 3

\* The short name of a node.
Leaf(path) == path[Len(path)]

IsPrefix(p, q) == Len(p) <= Len(q) /\ SubSeq(q, 1, Len(p)) = p

IsSuffix(p, q) == Len(p) <= Len(q) /\ SubSeq(q, Len(q) - Len(p) + 1, Len(q)) = p

\* Deleting the last member may or may not take the set with it: both
\* outcomes of the host are kept.
SetSurvives(exists, members) ==
    IF exists /\ members = {} THEN BOOLEAN ELSE {exists}

\* cmds.createNode("transform", name=name, parent=parent)
CreateNode(name, parent) ==
    /\ uPc = "idle"
    /\ Cardinality(nodes) < MaxNodes
    /\ parent = <<>> \/ parent \in nodes
    /\ (parent \o <<name>>) \notin nodes
    /\ nodes' = nodes \cup {parent \o <<name>>}
    /\ call' = [op |-> "createNode", attr |-> name, where |-> "", index |-> 0, flags |-> {}]
    /\ ret' = NoRet
    /\ UNCHANGED <<setExists, setMembers, attrVars, uniqueVars, copyVars, extVars>>

\* cmds.delete(path): the node goes with its descendants.
DeleteNode(path) ==
    /\ uPc = "idle"
    /\ path \in nodes
    /\ nodes' = {q \in nodes : ~IsPrefix(path, q)}
    /\ setMembers' = setMembers \cap nodes'
    /\ setExists' \in SetSurvives(setExists, setMembers')
    /\ call' = [op |-> "delete", attr |-> Leaf(path), where |-> "", index |-> 0, flags |-> {}]
    /\ ret' = NoRet
    /\ UNCHANGED <<attrVars, uniqueVars, copyVars, extVars>>

\* The path of q after the node `path` got the name `new`.
Renamed(q, path, new) ==
    IF IsPrefix(path, q) THEN [q EXCEPT ![Len(path)] = new] ELSE q

\* cmds.rename(path, new)
RenameNode(path, new) ==
    /\ uPc = "idle"
    /\ path \in nodes
    /\ Renamed(path, path, new) \notin nodes
    /\ nodes' = {Renamed(q, path, new) : q \in nodes}
    /\ setMembers' = {Renamed(q, path, new) : q \in setMembers}
    /\ call' = [op |-> "rename", attr |-> new, where |-> "", index |-> 0, flags |-> {}]
    /\ ret' = NoRet
    /\ UNCHANGED <<setExists, attrVars, uniqueVars, copyVars, extVars>>

----------------------------------------------------------------------------
(* name.unique                                                             *)

\* The length of the names unique is called with.
MaxNameLen == 3

UniqueAlphabet == {"A", "#", "*"}

\* The names the model calls unique with.
UniqueInputs == UNION {[1..n -> UniqueAlphabet] : n \in 1..MaxNameLen}

\* The names of the nodes the scene may hold when unique is called.
UniqueNodeNames ==
    { <<"A">>, <<"A", "0">>, <<"A", "1">>, <<"A", "2">>,
      <<"A", "0", "0">>, <<"A", "0", "1">>, <<"A", "0", "A">> }

\* name.count("#")
CountHash(name) == Cardinality({i \in 1..Len(name) : name[i] = "#"})

\* "#" * count
RECURSIVE Hashes(_)
Hashes(n) == IF n <= 0 THEN <<>> ELSE <<"#">> \o Hashes(n - 1)

\* s.replace(old, new), old not empty: every occurrence, left to right.
RECURSIVE Replace(_, _, _)
Replace(s, old, new) ==
    IF Len(s) < Len(old) \/ old = <<>> THEN s
    ELSE IF SubSeq(s, 1, Len(old)) = old
         THEN new \o Replace(SubSeq(s, Len(old) + 1, Len(s)), old, new)
         ELSE <<s[1]>> \o Replace(Tail(s), old, new)

\* A wildcard match of the host: "*" stands for any run of characters.
RECURSIVE Glob(_, _)
Glob(pat, str) ==
    IF pat = <<>> THEN str = <<>>
    ELSE IF Head(pat) = "*"
         THEN Glob(Tail(pat), str) \/ (str # <<>> /\ Glob(pat, Tail(str)))
         ELSE str # <<>> /\ Head(str) = Head(pat) /\ Glob(Tail(pat), Tail(str))

\* cmds.objExists(name): some node of the scene has the name, or matches it.
ObjExists(scene, name) == \E q \in scene : Glob(name, Leaf(q))

\* A check that only asks for some "#".
HashBlockOkAny(name, count) == count = 0 \/ Contains(name, <<"#">>)

\* "#" * count in name
HashBlockOk(name, count) == Contains(name, Hashes(count))

\* An index that is not padded.
IndexTextNoFill(index, count) == Digits(index)

\* str(index).zfill(count)
IndexText(index, count) == ZFill(Digits(index), count)

\* _build()
Build(name, count, index) ==
    IF count # 0 THEN Replace(name, Hashes(count), IndexText(index, count)) ELSE name

\* count = name.count("#"); index = 0; the NameError; generated = _build()
UniqueStart(name) ==
    /\ uPc = "idle"
    /\ call' = [op |-> "unique", attr |-> name, where |-> "", index |-> 0, flags |-> {}]
    /\ IF ~HashBlockOk(name, CountHash(name))
       THEN /\ ret' = [exc |-> "NameError", log |-> FALSE, plug |-> <<>>]
            /\ UNCHANGED uniqueVars
       ELSE /\ ret' = [exc |-> "pending", log |-> FALSE, plug |-> <<>>]
            /\ uPc' = "loop"
            /\ uName' = name
            /\ uCount' = CountHash(name)
            /\ uIndex' = 0
            /\ uGen' = Build(name, CountHash(name), 0)
    /\ UNCHANGED <<attrVars, sceneVars, copyVars, extVars>>

\* One test of `while cmds.objExists(generated)`: an iteration of the body,
\* or the return of generated.replace("*", "").
UniqueStep ==
    /\ uPc = "loop"
    /\ IF ObjExists(nodes, uGen)
       THEN LET grow == uCount = 0 /\ uIndex = 0
                name2 == IF grow THEN uName \o <<"#">> ELSE uName
                count2 == IF grow THEN 1 ELSE uCount
            IN  /\ uName' = name2
                /\ uCount' = count2
                /\ uIndex' = uIndex + 1
                /\ uGen' = Build(name2, count2, uIndex + 1)
                /\ UNCHANGED <<uPc, call, ret>>
       ELSE /\ ret' = [exc |-> "none", log |-> FALSE, plug |-> Replace(uGen, <<"*">>, <<>>)]
            /\ call' = [call EXCEPT !.index = uIndex]
            /\ uPc' = "idle"
            /\ uName' = <<>>
            /\ uCount' = 0
            /\ uIndex' = 0
            /\ uGen' = <<>>
    /\ UNCHANGED <<attrVars, sceneVars, copyVars, extVars>>

NextUnique ==
    \/ \E n \in UniqueNodeNames : CreateNode(n, <<>>)
    \/ \E q \in nodes : DeleteNode(q)
    \/ \E n \in UniqueInputs : UniqueStart(n)
    \/ UniqueStep

SpecUnique == Init /\ [][NextUnique]_vars

\* The while loop runs on: the interpreter does not stop inside a call.
FairSpecUnique == SpecUnique /\ WF_vars(UniqueStep)

----------------------------------------------------------------------------
(* Claims on name.unique.                                                  *)

\* The short names of the nodes of the scene.
SceneNames == {Leaf(q) : q \in nodes}

\* The name has "#" characters that are not all contiguous.
MultiBlock(name) ==
    \E i, j, k \in 1..Len(name) :
        i < j /\ j < k /\ name[i] = "#" /\ name[j] # "#" /\ name[k] = "#"

HasStar(name) == "*" \in Range(name)

\* The i-th candidate for a name: without "#", the name itself and then the
\* name followed by i; with one block of k "#", the name with the block
\* replaced by i zero-padded to k digits.
Candidate(name, i) ==
    LET k == CountHash(name) IN
    IF k = 0 THEN (IF i = 0 THEN name ELSE name \o Digits(i))
    ELSE LET b == CHOOSE b \in 1..Len(name) :
                      name[b] = "#" /\ \A j \in 1..(b - 1) : name[j] # "#"
         IN  SubSeq(name, 1, b - 1) \o ZFill(Digits(i), k)
                 \o SubSeq(name, b + k, Len(name))

NoStar(s) == SelectSeq(s, LAMBDA c : c # "*")

\* C6 as stated: the result is the first candidate that no node of the scene
\* is named, for every name.
C6_FirstFreeCandidate ==
    (call.op = "unique" /\ ret.exc = "none") =>
        \E i \in 0..Cardinality(nodes) :
            /\ ret.plug = Candidate(call.attr, i)
            /\ ret.plug \notin SceneNames
            /\ \A j \in 0..(i - 1) : Candidate(call.attr, j) \in SceneNames

\* The result of a finished search: free in every case; for a name without
\* "*" the first free candidate; for a name with "*" the first candidate no
\* node matches as a wildcard pattern, with its "*" removed.
C6_Result ==
    (call.op = "unique" /\ ret.exc = "none") =>
        /\ ret.plug \notin SceneNames
        /\ \E i \in 0..(2 * Cardinality(nodes)) :
            IF ~HasStar(call.attr)
            THEN /\ ret.plug = Candidate(call.attr, i)
                 /\ \A j \in 0..(i - 1) : Candidate(call.attr, j) \in SceneNames
            ELSE /\ ret.plug = NoStar(Candidate(call.attr, i))
                 /\ \A n \in SceneNames : ~Glob(Candidate(call.attr, i), n)
                 /\ \A j \in 0..(i - 1) :
                        \E n \in SceneNames : Glob(Candidate(call.attr, j), n)

\* C6 amended: unique returns a name no node has; for a name without "*" it
\* is the first free candidate, for a name with "*" the first candidate that
\* matches no node as a wildcard pattern, "*" removed; the search ends.
C6_UniqueResult == []C6_Result /\ ((uPc = "loop") ~> (uPc = "idle"))

\* C6 witness: a name with a block of two "#" got index 2, the candidates
\* 0 and 1 being taken.
C6_Witness ==
    /\ call.op = "unique" /\ ret.exc = "none" /\ uPc = "idle"
    /\ CountHash(call.attr) = 2 /\ ~HasStar(call.attr)
    /\ call.index = 2 /\ ret.plug = <<"A", "0", "2">>

\* C7: unique raises NameError exactly when the "#" of the name are not all
\* contiguous.
C7_NameErrorIffMultiBlock ==
    call.op = "unique" => (ret.exc = "NameError" <=> MultiBlock(call.attr))

\* C7 witness: a name with two blocks raised NameError.
C7_Witness ==
    /\ call.op = "unique" /\ ret.exc = "NameError"
    /\ call.attr = <<"#", "A", "#">>

----------------------------------------------------------------------------
(* name.find_conflicts                                                     *)

\* The names of the DAG nodes the scene may hold when find_conflicts is
\* called (the test's); none is the name of the set.
ConflictNodeNames == {<<"A">>, <<"B">>}

\* "n0|n1|...|nk"
RECURSIVE Join(_)
Join(path) ==
    IF path = <<>> THEN <<>>
    ELSE IF Len(path) = 1 THEN path[1]
    ELSE path[1] \o <<"|">> \o Join(Tail(path))

\* The full path of a node as the host writes it: "|n0|n1|...|nk".
FullPath(path) == <<"|">> \o Join(path)

\* The nodes a name denotes for the host: the node of that full path, or the
\* nodes whose full path ends with "|" + name.
Denotes(scene, x) ==
    {q \in scene : \/ x = FullPath(q)
                   \/ Head(x) # "|" /\ IsSuffix(<<"|">> \o x, FullPath(q))}

\* The name cmds.ls() gives a node: its short name when no other node has
\* it, otherwise a partial path that denotes it alone (here the shortest
\* one; the host may write a longer one, always with a "|").
LsName(scene, path) ==
    LET tails == {k \in 1..Len(path) :
                     Denotes(scene, Join(SubSeq(path, Len(path) - k + 1, Len(path)))) = {path}}
    IN  IF tails = {} THEN FullPath(path)
        ELSE LET k == CHOOSE k \in tails : \A j \in tails : k <= j
             IN  Join(SubSeq(path, Len(path) - k + 1, Len(path)))

\* nodes = [x for x in cmds.ls() if "|" in x]
ConflictNames(scene) ==
    {x \in {LsName(scene, q) : q \in scene} : "|" \in Range(x)}

\* A set that is only replaced when there is a conflict to store.
SetAfterKeepStale(exists, members, scene, found) ==
    IF found # {}
    THEN [exists |-> TRUE, members |-> UNION {Denotes(scene, x) : x \in found},
          deleted |-> exists]
    ELSE [exists |-> exists, members |-> members, deleted |-> FALSE]

\* if cmds.objExists(set_name): cmds.delete(set_name)
\* if nodes: cmds.sets(nodes, name=set_name)
SetAfter(exists, members, scene, found) ==
    IF found # {}
    THEN [exists |-> TRUE, members |-> UNION {Denotes(scene, x) : x \in found},
          deleted |-> exists]
    ELSE [exists |-> FALSE, members |-> {}, deleted |-> exists]

\* find_conflicts(create_set=create_set); call.index is 1 when the call
\* deleted an existing set.
FindConflicts(create_set) ==
    LET found == ConflictNames(nodes)
        after == SetAfter(setExists, setMembers, nodes, found)
    IN  /\ uPc = "idle"
        /\ setExists' = IF create_set THEN after.exists ELSE setExists
        /\ setMembers' = IF create_set THEN after.members ELSE setMembers
        /\ call' = [op |-> "find_conflicts", attr |-> <<>>, where |-> "",
                    index |-> IF create_set /\ after.deleted THEN 1 ELSE 0,
                    flags |-> IF create_set THEN {"create_set"} ELSE {}]
        /\ ret' = [exc |-> "none", log |-> FALSE, plug |-> found]
        /\ UNCHANGED <<nodes, attrVars, uniqueVars, copyVars, extVars>>

NextConflicts ==
    \/ \E n \in ConflictNodeNames, parent \in nodes \cup {<<>>} : CreateNode(n, parent)
    \/ \E q \in nodes : DeleteNode(q)
    \/ \E q \in nodes, n \in ConflictNodeNames : RenameNode(q, n)
    \/ \E b \in BOOLEAN : FindConflicts(b)

SpecConflicts == Init /\ [][NextConflicts]_vars

----------------------------------------------------------------------------
(* Claims on name.find_conflicts.                                          *)

\* The nodes whose short name another node of the scene has too.
Clashing == {q \in nodes : \E r \in nodes : r # q /\ Leaf(r) = Leaf(q)}

\* C9: find_conflicts returns names that denote, one node each, exactly the
\* nodes whose name appears more than once; right after a call with
\* create_set=True the set exists iff the returned list is not empty, and
\* then holds exactly the returned nodes.
C9_ConflictsAndSet ==
    call.op = "find_conflicts" =>
        /\ \A x \in ret.plug : Cardinality(Denotes(nodes, x)) = 1
        /\ UNION {Denotes(nodes, x) : x \in ret.plug} = Clashing
        /\ Cardinality(ret.plug) = Cardinality(Clashing)
        /\ "create_set" \in call.flags =>
               /\ setExists <=> ret.plug # {}
               /\ setExists => setMembers = Clashing
               /\ ~setExists => setMembers = {}

\* C9 witness: a call with create_set=True found no conflict in a scene
\* that still has nodes and removed the set an earlier call had left.
C9_Witness ==
    /\ call.op = "find_conflicts" /\ "create_set" \in call.flags
    /\ call.index = 1 /\ ret.plug = {} /\ ~setExists /\ nodes # {}

----------------------------------------------------------------------------
(* name.nice                                                               *)

\* The length of the names nice is called with.
MaxNiceLen == 3

LowerCase == {"a", "b"}
UpperCase == {"A", "B"}
Separators == {"-", "_", " "}

\* The names the model calls nice with.
NiceInputs ==
    UNION {[1..n -> LowerCase \cup UpperCase \cup Separators] : n \in 0..MaxNiceLen}

ToUpper(c) == CASE c = "a" -> "A" [] c = "b" -> "B" [] OTHER -> c
ToLower(c) == CASE c = "A" -> "a" [] c = "B" -> "b" [] OTHER -> c

\* re.sub(r"(?<!^)([A-Z])", r" \1", name): a space before every capital
\* that is not the first character.
RECURSIVE SpaceCapitals(_, _)
SpaceCapitals(s, p) ==
    IF p > Len(s) THEN <<>>
    ELSE (IF p > 1 /\ s[p] \in UpperCase THEN <<" ", s[p]>> ELSE <<s[p]>>)
             \o SpaceCapitals(s, p + 1)

\* str.title(): a cased character is upper case after an uncased one (or at
\* the start) and lower case after a cased one.
RECURSIVE Title(_, _, _)
Title(s, p, prevCased) ==
    IF p > Len(s) THEN <<>>
    ELSE IF s[p] \in LowerCase \cup UpperCase
         THEN <<IF prevCased THEN ToLower(s[p]) ELSE ToUpper(s[p])>> \o Title(s, p + 1, TRUE)
         ELSE <<s[p]>> \o Title(s, p + 1, FALSE)

\* nice(name)
Nice(name) == Title(Replace(SpaceCapitals(name, 1), <<"_">>, <<" ">>), 1, FALSE)

NiceCall(name) ==
    /\ call' = [op |-> "nice", attr |-> name, where |-> "", index |-> 0, flags |-> {}]
    /\ ret' = [exc |-> "none", log |-> FALSE, plug |-> Nice(name)]
    /\ UNCHANGED <<attrVars, sceneVars, uniqueVars, copyVars, extVars>>

NextNice == \E n \in NiceInputs : NiceCall(n)

SpecNice == Init /\ [][NextNice]_vars

----------------------------------------------------------------------------
(* Claims on name.nice.                                                    *)

IsLetter(c) == c \in LowerCase \cup UpperCase

\* Words separated by one hyphen, underscore or space each, or by a change
\* from lower to upper case: the shapes of the test.
WordShaped(s) ==
    /\ Len(s) >= 1
    /\ IsLetter(s[1]) /\ IsLetter(s[Len(s)])
    /\ \A p \in 2..Len(s) :
           /\ s[p] \in Separators => IsLetter(s[p - 1])
           /\ s[p] \in UpperCase => s[p - 1] \in LowerCase

\* The words of s, capitalised, with single spaces between them.
RECURSIVE NiceWords(_, _)
NiceWords(s, p) ==
    IF p > Len(s) THEN <<>>
    ELSE (IF s[p] \in Separators THEN <<" ">>
          ELSE IF p = 1 \/ s[p - 1] \in Separators THEN <<ToUpper(s[p])>>
          ELSE IF s[p] \in UpperCase THEN <<" ", s[p]>>
          ELSE <<s[p]>>)
             \o NiceWords(s, p + 1)

\* C8: nice gives the words of a word-shaped name, capitalised and separated
\* by single spaces.
C8_NiceWords ==
    (call.op = "nice" /\ WordShaped(call.attr)) => ret.plug = NiceWords(call.attr, 1)

----------------------------------------------------------------------------
(* attribute.copy                                                          *)

\* The user-defined attributes the source may hold, in the order of
\* listAttr: two simple ones and a compound with a nested compound.
SourceLayout == <<"S", "T", "P", "PA", "PC", "PCA">>

\* cmds.attributeQuery(attribute, node=source, listParent=True)
ParentOf(a) ==
    CASE a = "PA" -> "P" [] a = "PC" -> "P" [] a = "PCA" -> "PC" [] OTHER -> ""

TopLevel == {"S", "T", "P"}

\* The attributes a value is set on in the model; every other one keeps its
\* default value.
Valued == {"S", "PA"}

\* The default value of an attribute, and another value.
DefaultValue == 0
AttrValues == {0, 1}

RECURSIVE IsUnder(_, _)
IsUnder(a, top) ==
    IF ParentOf(a) = "" THEN FALSE
    ELSE ParentOf(a) = top \/ IsUnder(ParentOf(a), top)

\* The attribute and everything nested in it, in declaration order: what
\* getAddAttrCmd / getAddAttrCmds recreate.
WithNested(a) == SelectSeq(SourceLayout, LAMBDA b : b = a \/ IsUnder(b, a))

\* The `attributes` arguments the model calls copy with; <<>> is None.
CopyLists ==
    { <<>>, <<"S">>, <<"P">>, <<"PA">>, <<"S", "S">>, <<"S", "T">>, <<"T", "S">>,
      <<"P", "S", "T">>, <<"T", "S", "P">> }

\* The values of `set` over the attributes of `names`.
ValuesOver(names, old, new) ==
    [a \in (Range(names) \cap Valued) |->
        IF a \in DOMAIN new THEN new[a]
        ELSE IF a \in DOMAIN old THEN old[a] ELSE DefaultValue]

\* A creation that registers the parent only.
CopyCreateParentOnly(st, a) ==
    LET attrs == st.attrs \o WithNested(a)
    IN  [st EXCEPT !.attrs = attrs,
                   !.val = ValuesOver(attrs, st.val, [b \in {} |-> 0]),
                   !.copied = Append(st.copied, a)]

\* mel.eval of the addAttr commands: names registered by
\* re.findall(r'-longName\s"(\w+)"', cmd) are those of the commands.
CopyCreate(st, a) ==
    LET names == WithNested(a)
        attrs == st.attrs \o names
    IN  [st EXCEPT !.attrs = attrs,
                   !.val = ValuesOver(attrs, st.val, [b \in {} |-> 0]),
                   !.copied = st.copied \o names]

\* mel.eval of plug.getSetAttrCmds(): the source's current values, set on
\* the destination.
CopyValues(st, a, source) ==
    [st EXCEPT !.val = ValuesOver(st.attrs, st.val,
                        [b \in (Range(WithNested(a)) \cap Valued) |-> source[b]])]

\* An iteration that takes back, when it raises, what the call created.
CopyOneRollback(st, a, values, fatal, source) ==
    LET exists == a \in Range(st.attrs) IN
    IF st.exc # "none" THEN st
    ELSE IF ParentOf(a) # "" THEN st
    ELSE IF exists /\ fatal
         THEN LET attrs == SelectSeq(st.attrs, LAMBDA b : b \notin Range(st.copied)) IN
              [st EXCEPT !.exc = "AttributeError", !.attrs = attrs,
                         !.val = [c \in (Range(attrs) \cap Valued) |-> st.val[c]]]
    ELSE LET created == IF ~exists THEN CopyCreate(st, a) ELSE st
         IN  IF values THEN CopyValues(created, a, source) ELSE created

\* One iteration of `for attribute in attributes:`.
CopyOne(st, a, values, fatal, source) ==
    LET exists == a \in Range(st.attrs) IN
    IF st.exc # "none" THEN st
    ELSE IF ParentOf(a) # "" THEN st
    ELSE IF exists /\ fatal THEN [st EXCEPT !.exc = "AttributeError"]
    ELSE LET created == IF ~exists THEN CopyCreate(st, a) ELSE st
         IN  IF values THEN CopyValues(created, a, source) ELSE created

RECURSIVE CopyLoop(_, _, _, _, _)
CopyLoop(st, list, values, fatal, source) ==
    IF list = <<>> THEN st
    ELSE CopyLoop(CopyOne(st, Head(list), values, fatal, source),
                  Tail(list), values, fatal, source)

\* attributes = attributes or cmds.listAttr(source, userDefined=True) or []
CopyList(attributes, source) == IF attributes # <<>> THEN attributes ELSE source

\* copy(source, destination, values, attributes, fatal)
Copy(values, attributes, fatal) ==
    LET list == CopyList(attributes, srcAttrs)
        st == CopyLoop([attrs |-> dstAttrs, val |-> dstVal, copied |-> <<>>, exc |-> "none"],
                       list, values, fatal, srcVal)
    IN  /\ Range(attributes) \subseteq Range(srcAttrs)
        /\ dstAttrs' = st.attrs
        /\ dstVal' = st.val
        /\ call' = [op |-> "copy", attr |-> attributes, where |-> "", index |-> 0,
                    flags |-> (IF values THEN {"values"} ELSE {})
                                  \cup (IF fatal THEN {"fatal"} ELSE {})]
        /\ ret' = [exc |-> st.exc, log |-> FALSE,
                   plug |-> IF st.exc = "none" THEN st.copied ELSE <<>>]
        /\ UNCHANGED <<srcAttrs, srcVal, attrVars, sceneVars, uniqueVars, extVars>>

\* cmds.addAttr(src, ...): the next top-level attribute of the layout, a
\* compound with all its children.
AddSrcAttr(a) ==
    /\ a \in TopLevel
    /\ a \notin Range(srcAttrs)
    /\ \A b \in TopLevel : IndexOf(SourceLayout, b) < IndexOf(SourceLayout, a)
                               => b \in Range(srcAttrs)
    /\ srcAttrs' = srcAttrs \o WithNested(a)
    /\ srcVal' = ValuesOver(srcAttrs', srcVal, [b \in {} |-> 0])
    /\ call' = [op |-> "addAttr", attr |-> <<a>>, where |-> "src", index |-> 0, flags |-> {}]
    /\ ret' = NoRet
    /\ UNCHANGED <<dstAttrs, dstVal, attrVars, sceneVars, uniqueVars, extVars>>

\* cmds.setAttr(src + "." + a, v)
SetSrcValue(a, v) ==
    /\ a \in DOMAIN srcVal
    /\ srcVal' = [srcVal EXCEPT ![a] = v]
    /\ call' = [op |-> "setAttr", attr |-> <<a>>, where |-> "src", index |-> v, flags |-> {}]
    /\ ret' = NoRet
    /\ UNCHANGED <<srcAttrs, dstAttrs, dstVal, attrVars, sceneVars, uniqueVars, extVars>>

\* cmds.addAttr(dst, longName=a), a simple attribute (test_copy_existing).
AddDstAttr(a) ==
    /\ a \in {"S", "T"}
    /\ a \notin Range(dstAttrs)
    /\ dstAttrs' = Append(dstAttrs, a)
    /\ dstVal' = ValuesOver(dstAttrs', dstVal, [b \in {} |-> 0])
    /\ call' = [op |-> "addAttr", attr |-> <<a>>, where |-> "dst", index |-> 0, flags |-> {}]
    /\ ret' = NoRet
    /\ UNCHANGED <<srcAttrs, srcVal, attrVars, sceneVars, uniqueVars, extVars>>

\* cmds.setAttr(dst + "." + a, v)
SetDstValue(a, v) ==
    /\ a \in DOMAIN dstVal
    /\ dstVal' = [dstVal EXCEPT ![a] = v]
    /\ call' = [op |-> "setAttr", attr |-> <<a>>, where |-> "dst", index |-> v, flags |-> {}]
    /\ ret' = NoRet
    /\ UNCHANGED <<srcAttrs, srcVal, dstAttrs, attrVars, sceneVars, uniqueVars, extVars>>

\* cmds.deleteAttr(dst, attribute=a): a top-level attribute goes with what
\* is nested in it.
DeleteDstAttr(a) ==
    /\ a \in TopLevel \cap Range(dstAttrs)
    /\ dstAttrs' = SelectSeq(dstAttrs, LAMBDA b : b # a /\ ~IsUnder(b, a))
    /\ dstVal' = [b \in (Range(dstAttrs') \cap Valued) |-> dstVal[b]]
    /\ call' = [op |-> "deleteAttr", attr |-> <<a>>, where |-> "dst", index |-> 0, flags |-> {}]
    /\ ret' = NoRet
    /\ UNCHANGED <<srcAttrs, srcVal, attrVars, sceneVars, uniqueVars, extVars>>

NextCopy ==
    \/ \E a \in TopLevel : AddSrcAttr(a)
    \/ \E a \in Valued, v \in AttrValues : SetSrcValue(a, v)
    \/ \E a \in TopLevel : AddDstAttr(a)
    \/ \E a \in Valued, v \in AttrValues : SetDstValue(a, v)
    \/ \E a \in TopLevel : DeleteDstAttr(a)
    \/ \E values \in BOOLEAN, fatal \in BOOLEAN, list \in CopyLists : Copy(values, list, fatal)

SpecCopy == Init /\ [][NextCopy]_vars

----------------------------------------------------------------------------
(* Claims on attribute.copy.                                               *)

\* C10: a top-level attribute of the copied list that is on the destination
\* before the call is ignored with fatal=False (it stays, keeps its value
\* whatever `values` is, and is not in the returned list) and makes copy
\* raise AttributeError with fatal=True.
C10_ExistingIgnored ==
    [][call'.op = "copy" =>
        \A a \in Range(CopyList(call'.attr, srcAttrs)) :
            (ParentOf(a) = "" /\ a \in Range(dstAttrs)) =>
                IF "fatal" \in call'.flags
                THEN ret'.exc = "AttributeError"
                ELSE /\ ret'.exc = "none"
                     /\ a \in Range(dstAttrs')
                     /\ a \notin Range(ret'.plug)
                     /\ a \in DOMAIN dstVal => dstVal'[a] = dstVal[a]
    ]_vars

\* C11: a copy that returns gives the list, without repetition, of the
\* attributes that are on the destination after the call and were not
\* before; a top-level attribute it creates comes with everything nested in
\* it, and every listed name is on the destination afterwards.
C11_ReturnsCreated ==
    [][(call'.op = "copy" /\ ret'.exc = "none") =>
        /\ Range(ret'.plug) = Range(dstAttrs') \ Range(dstAttrs)
        /\ \A i, j \in 1..Len(ret'.plug) : ret'.plug[i] = ret'.plug[j] => i = j
        /\ Range(ret'.plug) \subseteq Range(dstAttrs')
        /\ \A a \in Range(CopyList(call'.attr, srcAttrs)) :
              (ParentOf(a) = "" /\ a \notin Range(dstAttrs)) =>
                  Range(WithNested(a)) \subseteq Range(ret'.plug)
    ]_vars

\* A copy of the compound and two simple attributes, one of them on the
\* destination already: the compound comes with its three nested children.
C11_Witness ==
    /\ call.op = "copy"
    /\ call.attr = <<"P", "S", "T">>
    /\ ret.exc = "none"
    /\ ret.plug = <<"P", "PA", "PC", "PCA", "T">>
    /\ "S" \in Range(dstAttrs)

----------------------------------------------------------------------------
(* attribute.unlock, used as a context manager by a caller.                *)

\* with unlock(node, attributes): up to the yield. `attributes` is the set
\* of the names given, {} for None or an empty list. cmds.getAttr raises
\* ValueError for a plug that does not exist, before any lock is written.
UnlockBegin(attributes) ==
    LET targets == UnlockTargets(attributes, locked)
        plugs == UnlockStore(targets, locked)
    IN  /\ ulPc = "idle"
        /\ call' = [op |-> "unlock", attr |-> <<>>, where |-> "enter", index |-> 0,
                    flags |-> attributes]
        /\ IF \E t \in targets : ~PlugExists(userAttrs, t)
           THEN /\ ret' = [exc |-> "ValueError", log |-> FALSE, plug |-> <<>>]
                /\ UNCHANGED <<locked, unlockVars>>
           ELSE /\ ret' = NoRet
                /\ ulPc' = "block"
                /\ ulPlugs' = plugs
                /\ ulArg' = attributes
                /\ ulEntry' = locked
                /\ locked' = UnlockEnter(plugs, locked)
        /\ UNCHANGED <<userAttrs, sepLog, sceneVars, uniqueVars, copyVars, afterUnlock>>

\* The end of the with-block, normal or by an exception of the block: the
\* finally clause, then the exception goes on to the caller.
UnlockEnd(raised) ==
    /\ ulPc = "block"
    /\ locked' = UnlockExit(ulPlugs, locked)
    /\ ulPc' = "idle"
    /\ ulPlugs' = <<>>
    /\ call' = [op |-> "unlock", attr |-> <<>>, where |-> "exit", index |-> 0, flags |-> {}]
    /\ ret' = [exc |-> IF raised THEN "Exception" ELSE "none", log |-> FALSE, plug |-> <<>>]
    /\ UNCHANGED <<ulArg, ulEntry, userAttrs, sepLog, sceneVars, uniqueVars, copyVars, afterUnlock>>

\* The attributes are added in the order of their letters; the block and
\* the caller set and clear locks at will.
NextUnlock ==
    \/ \E a \in UserNames : a = <<Letters[Len(userAttrs) + 1]>> /\ AddAttr(a)
    \/ \E a \in UserNames, v \in BOOLEAN : SetLock(a, v)
    \/ \E attributes \in SUBSET UserNames : UnlockBegin(attributes)
    \/ \E raised \in BOOLEAN : UnlockEnd(raised)

SpecUnlock == Init /\ [][NextUnlock]_vars

----------------------------------------------------------------------------
(* Claims on attribute.unlock.                                             *)

\* C12: entering unlock clears the lock of every target, the targets being
\* the attributes given or, with none given, those locked at entry; leaving
\* the block, normally or by an exception (which goes on to the caller), gives
\* every target the lock state it had at entry, whatever the block did to
\* the locks; neither step writes the lock of an attribute that is no target.
C12_UnlockRestores ==
    [][/\ (call'.op = "unlock" /\ call'.where = "enter" /\ ret'.exc = "none") =>
            LET targets == IF call'.flags # {} THEN call'.flags ELSE locked
            IN  /\ locked' \cap targets = {}
                /\ locked' \ targets = locked \ targets
       /\ (call'.op = "unlock" /\ call'.where = "exit") =>
            LET targets == IF ulArg # {} THEN ulArg ELSE ulEntry
            IN  /\ locked' \cap targets = ulEntry \cap targets
                /\ locked' \ targets = locked \ targets
                /\ ulPc' = "idle"
    ]_vars

\* An unlock of two given attributes, one locked at entry and one not, left
\* by an exception while a third attribute, no target, is locked.
C12_Witness ==
    /\ call.op = "unlock"
    /\ call.where = "exit"
    /\ ret.exc = "Exception"
    /\ ulArg = {<<"A">>, <<"B">>}
    /\ ulEntry \cap ulArg = {<<"A">>}
    /\ locked = {<<"A">>, <<"C">>}
    /\ <<"C">> \notin ulEntry

----------------------------------------------------------------------------
(* selection.keep                                                          *)

\* The number of keep() blocks nested in one another.
MaxDepth == 2

\* The transforms the docstring creates.
KeepNodeNames == {<<"A">>, <<"B">>}

\* The lists of distinct existing nodes cmds.select may be given.
SelectLists(scene) ==
    {<<>>} \cup {<<p>> : p \in scene}
           \cup {pq \in scene \X scene : pq[1] # pq[2]}

\* cmds.createNode("transform", name=name): the new node is selected.
CreateSelected(name) ==
    /\ uPc = "idle"
    /\ <<name>> \notin nodes
    /\ nodes' = nodes \cup {<<name>>}
    /\ selection' = << <<name>> >>
    /\ call' = [op |-> "createNode", attr |-> name, where |-> "", index |-> 0, flags |-> {}]
    /\ ret' = NoRet
    /\ UNCHANGED <<setExists, setMembers, attrVars, uniqueVars, copyVars, unlockVars,
                   keepStack, keepEntry, afterSel>>

\* cmds.select(list), cmds.select(clear=True) for the empty list.
Select(list) ==
    /\ selection' = list
    /\ call' = [op |-> "select", attr |-> <<>>, where |-> "", index |-> Len(list), flags |-> {}]
    /\ ret' = NoRet
    /\ UNCHANGED <<baseVars, unlockVars, keepStack, keepEntry, afterSel>>

\* A finally that selects the stored list only when there is one.
KeepRestoreNoClear(stored, current) == IF stored # <<>> THEN stored ELSE current

\* finally: if selection: cmds.select(selection) else: cmds.select(clear=True)
KeepRestore(stored, current) == IF stored # <<>> THEN stored ELSE <<>>

\* with keep(): selection = cmds.ls(selection=True), up to the yield.
KeepBegin ==
    /\ Len(keepStack) < MaxDepth
    /\ keepStack' = Append(keepStack, selection)
    /\ keepEntry' = Append(keepEntry, selection)
    /\ call' = [op |-> "keep", attr |-> <<>>, where |-> "enter", index |-> 0, flags |-> {}]
    /\ ret' = NoRet
    /\ UNCHANGED <<selection, baseVars, unlockVars, afterSel>>

\* The end of the innermost with-block, normal or by an exception of the
\* block; call.index is 1 when the block left another selection than the
\* stored one.
KeepEnd(raised) ==
    /\ keepStack # <<>>
    /\ selection' = KeepRestore(keepStack[Len(keepStack)], selection)
    /\ keepStack' = SubSeq(keepStack, 1, Len(keepStack) - 1)
    /\ keepEntry' = SubSeq(keepEntry, 1, Len(keepEntry) - 1)
    /\ call' = [op |-> "keep", attr |-> <<>>, where |-> "exit",
                index |-> IF selection # keepStack[Len(keepStack)] THEN 1 ELSE 0,
                flags |-> IF raised THEN {"raised"} ELSE {}]
    /\ ret' = [exc |-> IF raised THEN "Exception" ELSE "none", log |-> FALSE, plug |-> <<>>]
    /\ UNCHANGED <<baseVars, unlockVars, afterSel>>

NextKeep ==
    \/ \E n \in KeepNodeNames : CreateSelected(n)
    \/ \E list \in SelectLists(nodes) : Select(list)
    \/ KeepBegin
    \/ \E raised \in BOOLEAN : KeepEnd(raised)

SpecKeep == Init /\ [][NextKeep]_vars

----------------------------------------------------------------------------
(* Claims on selection.keep.                                               *)

\* C13: leaving a keep() block, normally or by an exception (which goes on
\* to the caller), makes the selection the one the block was entered with,
\* empty or not, whatever the block selected; of nested blocks the innermost
\* is left first and the others keep their stored selections.
C13_KeepRestores ==
    [][(call'.op = "keep" /\ call'.where = "exit") =>
        /\ keepEntry # <<>>
        /\ selection' = keepEntry[Len(keepEntry)]
        /\ keepEntry' = SubSeq(keepEntry, 1, Len(keepEntry) - 1)
        /\ ret'.exc = (IF "raised" \in call'.flags THEN "Exception" ELSE "none")
        /\ nodes' = nodes
    ]_vars

\* An inner block entered with nothing selected, in an outer block entered
\* with A selected, is left by an exception after it selected something.
C13_Witness ==
    /\ call.op = "keep"
    /\ call.where = "exit"
    /\ call.index = 1
    /\ ret.exc = "Exception"
    /\ selection = <<>>
    /\ keepEntry = << << <<"A">> >> >>

----------------------------------------------------------------------------
(* history.undo                                                            *)

\* The number of chunks the caller opens itself before it uses undo().
MaxOpen == 2

\* The `name` arguments: the default None, and two names.
UndoNone == "None"
UndoNames == {UndoNone, "a", "b"}

\* The chunk the caller opens itself.
RawChunk == "raw"

\* cmds.undoInfo(chunkName=name, openChunk=True)
OpenChunk(open, name) == Append(open, name)

\* A close that closes nothing.
CloseChunkNoop(open) == open

\* cmds.undoInfo(chunkName=name, closeChunk=True): the innermost open chunk
\* is closed; with none open nothing happens.
CloseChunk(open) == IF open = <<>> THEN open ELSE SubSeq(open, 1, Len(open) - 1)

\* cmds.undoInfo(openChunk=True) by the caller, outside every undo() block.
HostOpen ==
    /\ undoStack = <<>>
    /\ Len(chunks) < MaxOpen
    /\ chunks' = OpenChunk(chunks, RawChunk)
    /\ call' = [op |-> "openChunk", attr |-> <<>>, where |-> "", index |-> 0, flags |-> {}]
    /\ ret' = NoRet
    /\ UNCHANGED <<undoStack, undoEntry, baseVars, unlockVars, selVars, afterUndo>>

\* cmds.undoInfo(closeChunk=True) by the caller, outside every undo() block.
HostClose ==
    /\ undoStack = <<>>
    /\ chunks # <<>>
    /\ chunks' = CloseChunk(chunks)
    /\ call' = [op |-> "closeChunk", attr |-> <<>>, where |-> "", index |-> 0, flags |-> {}]
    /\ ret' = NoRet
    /\ UNCHANGED <<undoStack, undoEntry, baseVars, unlockVars, selVars, afterUndo>>

\* with undo(name): up to the yield. The host either takes None for a string
\* flag or refuses it with TypeError, for the open and the close alike: in
\* the second case the open raises inside the try, the close of the finally
\* clause raises too, no chunk is touched and the block does not run.
UndoBegin(name, acceptsNone) ==
    /\ Len(undoStack) < MaxDepth
    /\ call' = [op |-> "undo", attr |-> <<>>, where |-> "enter", index |-> 0, flags |-> {name}]
    /\ IF name = UndoNone /\ ~acceptsNone
       THEN /\ ret' = [exc |-> "TypeError", log |-> FALSE, plug |-> <<>>]
            /\ UNCHANGED undoVars
       ELSE /\ ret' = NoRet
            /\ chunks' = OpenChunk(chunks, name)
            /\ undoStack' = Append(undoStack, name)
            /\ undoEntry' = Append(undoEntry, chunks)
    /\ UNCHANGED <<baseVars, unlockVars, selVars, afterUndo>>

\* The end of the innermost with-block, normal or by an exception of the
\* block: the finally clause, then the exception goes on to the caller.
UndoEnd(raised) ==
    /\ undoStack # <<>>
    /\ chunks' = CloseChunk(chunks)
    /\ undoStack' = SubSeq(undoStack, 1, Len(undoStack) - 1)
    /\ undoEntry' = SubSeq(undoEntry, 1, Len(undoEntry) - 1)
    /\ call' = [op |-> "undo", attr |-> <<>>, where |-> "exit", index |-> 0,
                flags |-> IF raised THEN {"raised"} ELSE {}]
    /\ ret' = [exc |-> IF raised THEN "Exception" ELSE "none", log |-> FALSE, plug |-> <<>>]
    /\ UNCHANGED <<baseVars, unlockVars, selVars, afterUndo>>

\* The commands of the docstring's blocks are createNode calls.
NextUndo ==
    \/ \E n \in KeepNodeNames : CreateSelected(n)
    \/ HostOpen
    \/ HostClose
    \/ \E name \in UndoNames, acceptsNone \in BOOLEAN : UndoBegin(name, acceptsNone)
    \/ \E raised \in BOOLEAN : UndoEnd(raised)

SpecUndo == Init /\ [][NextUndo]_vars

----------------------------------------------------------------------------
(* Claims on history.undo.                                                 *)

\* C14: an undo() that starts its block opens one chunk, and one that does
\* not leaves the chunks alone; the end of the block, normal or by an
\* exception (which goes on to the caller), closes that very chunk, the
\* innermost one, and leaves the open chunks as they were at entry, for
\* nested uses too.
C14_ChunkClosed ==
    [][/\ (call'.op = "undo" /\ call'.where = "enter") =>
            IF ret'.exc = "none"
            THEN chunks' = Append(chunks, CHOOSE n \in call'.flags : TRUE)
            ELSE chunks' = chunks /\ undoStack' = undoStack
       /\ (call'.op = "undo" /\ call'.where = "exit") =>
            /\ undoEntry # <<>>
            /\ Len(chunks) = Len(undoEntry[Len(undoEntry)]) + 1
            /\ chunks[Len(chunks)] = undoStack[Len(undoStack)]
            /\ chunks' = undoEntry[Len(undoEntry)]
            /\ ret'.exc = (IF "raised" \in call'.flags THEN "Exception" ELSE "none")
    ]_vars

\* A nested undo() left by an exception while the chunk of the outer one and
\* a chunk of the caller stay open.
C14_Witness ==
    /\ call.op = "undo"
    /\ call.where = "exit"
    /\ ret.exc = "Exception"
    /\ chunks = <<RawChunk, "a">>
    /\ undoStack = <<"a">>

----------------------------------------------------------------------------
(* _internal.with_maya                                                     *)

\* The number of calls of the decorated function the model counts.
MaxCalls == 2

\* The versions of the host, below, at and above the limits.
HostVersions == 8..12

\* The limits a function is decorated with: {} is None, {n} is n.
Limits == {{}} \cup {{n} : n \in 9..11}

\* The arguments the decorated function is called with.
FuncArgs == {1, 2}

\* The decorated function: what it returns for an argument.
Func(arg) == arg + 10

\* The value of a decimal digit.
DigitValue(c) == (CHOOSE i \in 1..10 : DigitChars[i] = c) - 1

\* int(text) for a text of decimal digits.
RECURSIVE ParseInt(_)
ParseInt(text) ==
    IF text = <<>> THEN 0
    ELSE 10 * ParseInt(SubSeq(text, 1, Len(text) - 1)) + DigitValue(text[Len(text)])

\* A lower limit that the version must exceed.
TooOldStrict(version, minimum) == \E m \in minimum : version <= m

\* minimum is not None and version < minimum
TooOld(version, minimum) == \E m \in minimum : version < m

\* maximum is not None and version > maximum
TooNew(version, maximum) == \E m \in maximum : version > m

\* wrapper(*args, **kwargs) of with_maya(minimum, maximum)(func)
WithMaya(minimum, maximum, arg) ==
    LET version == ParseInt(hostVersion)
        refused == TooOld(version, minimum) \/ TooNew(version, maximum)
    IN  /\ refused \/ funcCalls < MaxCalls
        /\ call' = [op |-> "with_maya", attr |-> <<minimum, maximum>>, where |-> "",
                    index |-> arg, flags |-> {}]
        /\ IF refused
           THEN /\ ret' = [exc |-> "RuntimeError", log |-> FALSE, plug |-> <<>>]
                /\ UNCHANGED <<funcCalls, funcLast>>
           ELSE /\ ret' = [exc |-> "none", log |-> FALSE, plug |-> <<Func(arg)>>]
                /\ funcCalls' = funcCalls + 1
                /\ funcLast' = arg
        /\ UNCHANGED <<hostVersion, baseVars, unlockVars, selVars, undoVars, afterMaya>>

\* The package is run by another version of the host, which writes its
\* version as a decimal number.
StartHost(v) ==
    /\ hostVersion' = Digits(v)
    /\ call' = [op |-> "about", attr |-> <<>>, where |-> "", index |-> v, flags |-> {}]
    /\ ret' = NoRet
    /\ UNCHANGED <<funcCalls, funcLast, baseVars, unlockVars, selVars, undoVars, afterMaya>>

NextMaya ==
    \/ \E v \in HostVersions : StartHost(v)
    \/ \E minimum \in Limits, maximum \in Limits, arg \in FuncArgs :
           WithMaya(minimum, maximum, arg)

SpecMaya == Init /\ [][NextMaya]_vars

----------------------------------------------------------------------------
(* Claims on _internal.with_maya.                                          *)

\* The number a host version text stands for.
VersionOf(text) ==
    CHOOSE v \in 0..99 : Digits(v) = text

\* C15: the decorated function is called once with the argument, and its
\* result returned, exactly when the host version is not below a given
\* minimum and not above a given maximum, both limits included; otherwise
\* RuntimeError is raised and the function is not called.
C15_VersionGate ==
    [][call'.op = "with_maya" =>
        LET v == VersionOf(hostVersion)
            minimum == call'.attr[1]
            maximum == call'.attr[2]
            inside == (\A m \in minimum : m <= v) /\ (\A m \in maximum : v <= m)
        IN  IF inside
            THEN /\ ret'.exc = "none"
                 /\ ret'.plug = <<Func(call'.index)>>
                 /\ funcCalls' = funcCalls + 1
                 /\ funcLast' = call'.index
            ELSE /\ ret'.exc = "RuntimeError"
                 /\ funcCalls' = funcCalls
                 /\ funcLast' = funcLast
    ]_vars

\* A call let through by a host whose version is the minimum and the
\* maximum at once.
C15_Witness ==
    /\ call.op = "with_maya"
    /\ call.attr = <<{9}, {9}>>
    /\ hostVersion = <<"9">>
    /\ ret.exc = "none"
    /\ funcCalls = 2

----------------------------------------------------------------------------
(* hierarchy.make                                                          *)

\* The number of names in the paths make is called with.
MaxPath == 2

\* The names of the transforms (the test's a, b, c).
MakeNames == {<<"A">>, <<"B">>, <<"C">>}

\* The lists of 1..n names.
RECURSIVE NameLists(_)
NameLists(n) ==
    IF n = 0 THEN {<<>>}
    ELSE LET shorter == NameLists(n - 1)
         IN  shorter \cup {Append(l, m) : l \in {s \in shorter : Len(s) = n - 1}, m \in MakeNames}

\* The `path` arguments: "n0|n1|...|nk".
MakePaths == {Join(l) : l \in NameLists(MaxPath) \ {<<>>}}

\* str.split(sep); acc is the part read since the last separator.
RECURSIVE Split(_, _, _)
Split(s, sep, acc) ==
    IF s = <<>> THEN <<acc>>
    ELSE IF Head(s) = sep THEN <<acc>> \o Split(Tail(s), sep, <<>>)
    ELSE Split(Tail(s), sep, Append(acc, Head(s)))

\* The nodes a short name denotes.
Named(scene, name) == {q \in scene : Leaf(q) = name}

\* The path of r after the node q became the node `new`.
Moved(r, q, new) ==
    IF IsPrefix(q, r) THEN new \o SubSeq(r, Len(q) + 1, Len(r)) ELSE r

\* cmds.parent(each, prev), `each` being the node q: the host refuses a name
\* that denotes several nodes (ValueError) and a parent that is the node or
\* one of its descendants (RuntimeError); the parented node is selected.
MakeParent(st, q, prev) ==
    LET targets == Named(st.scene, prev) IN
    IF Cardinality(targets) # 1 THEN [st EXCEPT !.exc = "ValueError"]
    ELSE LET p == CHOOSE p \in targets : TRUE
             new == Append(p, Leaf(q))
         IN  IF IsPrefix(q, p) THEN [st EXCEPT !.exc = "RuntimeError"]
             ELSE [st EXCEPT !.scene = {Moved(r, q, new) : r \in st.scene},
                             !.members = {Moved(r, q, new) : r \in st.members},
                             !.sel = <<new>>]

\* One iteration of `for i, each in enumerate(nodes):`, i counted from 1;
\* nodes[i - 1] of the first iteration is the last name of the path.
MakeOne(st, names, i) ==
    LET each == names[i]
        prev == IF i > 1 THEN names[i - 1] ELSE names[Len(names)]
        create == Named(st.scene, each) = {}
        st1 == IF create
               THEN [st EXCEPT !.scene = st.scene \cup {<<each>>}, !.sel = << <<each>> >>]
               ELSE st
        found == Named(st1.scene, each)
    IN  IF st.exc # "none" THEN st
        ELSE IF Cardinality(found) > 1 THEN [st1 EXCEPT !.exc = "ValueError"]
        ELSE LET q == CHOOSE q \in found : TRUE
                 parents == IF Len(q) > 1
                            THEN <<LsName(st1.scene, SubSeq(q, 1, Len(q) - 1))>>
                            ELSE <<>>
             IN  IF parents # <<>> /\ parents[1] = prev THEN st1
                 ELSE IF i > 1 THEN MakeParent(st1, q, prev)
                 ELSE st1

RECURSIVE MakeLoop(_, _, _)
MakeLoop(st, names, i) ==
    IF i > Len(names) THEN st
    ELSE MakeLoop(MakeOne(st, names, i), names, i + 1)

\* make(path)
Make(path) ==
    LET names == Split(path, "|", <<>>)
        st == MakeLoop([scene |-> nodes, members |-> setMembers, sel |-> selection,
                        exc |-> "none"], names, 1)
    IN  /\ uPc = "idle"
        /\ Cardinality(st.scene) <= MaxNodes
        /\ nodes' = st.scene
        /\ setMembers' = st.members
        /\ selection' = st.sel
        /\ call' = [op |-> "make", attr |-> path, where |-> "", index |-> 0, flags |-> {}]
        /\ ret' = [exc |-> st.exc, log |-> FALSE,
                   plug |-> IF st.exc = "none" THEN names[Len(names)] ELSE <<>>]
        /\ UNCHANGED <<setExists, attrVars, uniqueVars, copyVars, unlockVars,
                       keepStack, keepEntry, afterSel>>

NextMake ==
    \/ \E n \in MakeNames, parent \in nodes \cup {<<>>} : CreateNode(n, parent)
    \/ \E q \in nodes : DeleteNode(q)
    \/ \E path \in MakePaths : Make(path)

SpecMake == Init /\ [][NextMake]_vars

----------------------------------------------------------------------------
(* Claims on hierarchy.make.                                               *)

\* The parent of a node of the scene, by its short name; <<>> at the root.
ParentName(q) == IF Len(q) > 1 THEN q[Len(q) - 1] ELSE <<>>

\* C16: make('n0|...|nk') raises nothing and returns nk; afterwards every ni
\* exists and n(i-1) is the parent of ni; a path that is in the scene
\* already, whole or in its first names, stays as it is.
C16_MakeDirs ==
    [][call'.op = "make" =>
        LET names == Split(call'.attr, "|", <<>>) IN
        /\ ret'.exc = "none"
        /\ ret'.plug = names[Len(names)]
        /\ \A i \in 1..Len(names) : Named(nodes', names[i]) # {}
        /\ \A i \in 2..Len(names) :
              \E q \in Named(nodes', names[i]) : ParentName(q) = names[i - 1]
        /\ \A i \in 1..Len(names) :
              (\A j \in 1..i : SubSeq(names, 1, j) \in nodes) =>
                  /\ \A j \in 1..i : SubSeq(names, 1, j) \in nodes'
                  /\ (i = Len(names) => nodes' = nodes)
    ]_vars

----------------------------------------------------------------------------
(* skincluster: one mesh "cube" and its skincluster.                       *)

\* The joints of the docstrings, in the order they are created.
SkinJoints == <<"A", "B", "C">>

\* The `influences` arguments: the joints of a set, in creation order.
InfluenceLists == {SelectSeq(SkinJoints, LAMBDA j : j \in s) : s \in SUBSET Range(SkinJoints)}

\* {"linear": 0, "dualQuaternion": 1, "blend": 2}
MethodIndex == [m \in {"linear", "dualQuaternion", "blend"} |->
                   CASE m = "linear" -> 0 [] m = "dualQuaternion" -> 1 [] m = "blend" -> 2]

\* The `method` arguments: the three valid ones and one that is not.
Methods == DOMAIN MethodIndex \cup {"invalid"}

\* name=node + "_skinCluster", and the name the host gives by itself.
CreatedSkinName == <<"cube_skinCluster">>
HostSkinName == <<"skinCluster1">>

\* A delta that holds every requested influence.
SkinDeltaAll(influences, current) == influences

\* delta = set(influences) - set(current), listed in creation order.
SkinDelta(influences, current) ==
    SelectSeq(SkinJoints, LAMBDA j : j \in Range(influences) /\ j \notin Range(current))

\* create(node, influences, method); w are the new influences the host
\* gives a non-zero weight. call.index is 1 when a deformer is created.
SkinCreate(influences, method, w) ==
    /\ call' = [op |-> "create", attr |-> influences, where |-> method,
                index |-> IF method \in DOMAIN MethodIndex /\ skcName = <<>> THEN 1 ELSE 0,
                flags |-> {}]
    /\ IF method \notin DOMAIN MethodIndex
       THEN /\ w = {}
            /\ ret' = [exc |-> "ValueError", log |-> FALSE, plug |-> <<>>]
            /\ UNCHANGED skinVars
       ELSE IF skcName = <<>>
       THEN /\ influences # <<>>
            /\ w # {} /\ w \subseteq Range(influences)
            /\ skcName' = CreatedSkinName
            /\ skcInfluences' = influences
            /\ skcWeighted' = w
            /\ skcMethod' = MethodIndex[method]
            /\ ret' = [exc |-> "none", log |-> FALSE, plug |-> CreatedSkinName]
       ELSE LET delta == SkinDelta(influences, skcInfluences) IN
            /\ w \subseteq Range(delta)
            /\ skcInfluences' = skcInfluences \o delta
            /\ skcWeighted' = skcWeighted \cup w
            /\ ret' = [exc |-> "none", log |-> FALSE, plug |-> skcName]
            /\ UNCHANGED <<skcName, skcMethod>>
    /\ UNCHANGED <<baseVars, unlockVars, selVars, undoVars, mayaVars, afterSkin>>

\* cmds.skinCluster(msh, a, b): a skincluster made without create.
HostSkinCluster(influences, w) ==
    /\ skcName = <<>>
    /\ influences # <<>>
    /\ w # {} /\ w \subseteq Range(influences)
    /\ skcName' = HostSkinName
    /\ skcInfluences' = influences
    /\ skcWeighted' = w
    /\ skcMethod' = 0
    /\ call' = [op |-> "skinCluster", attr |-> influences, where |-> "", index |-> 1, flags |-> {}]
    /\ ret' = [exc |-> "none", log |-> FALSE, plug |-> HostSkinName]
    /\ UNCHANGED <<baseVars, unlockVars, selVars, undoVars, mayaVars, afterSkin>>

\* cmds.skinPercent(skc, msh + ".vtx[*]", transformValue=[...])
SkinPercent(w) ==
    /\ skcName # <<>>
    /\ w # {} /\ w \subseteq Range(skcInfluences)
    /\ skcWeighted' = w
    /\ call' = [op |-> "skinPercent", attr |-> <<>>, where |-> "", index |-> 0, flags |-> w]
    /\ ret' = NoRet
    /\ UNCHANGED <<skcName, skcInfluences, skcMethod,
                   baseVars, unlockVars, selVars, undoVars, mayaVars, afterSkin>>

\* cmds.delete(skc)
DeleteSkin ==
    /\ skcName # <<>>
    /\ skcName' = <<>>
    /\ skcInfluences' = <<>>
    /\ skcWeighted' = {}
    /\ skcMethod' = 0
    /\ call' = [op |-> "delete", attr |-> <<>>, where |-> "", index |-> 0, flags |-> {}]
    /\ ret' = NoRet
    /\ UNCHANGED <<baseVars, unlockVars, selVars, undoVars, mayaVars, afterSkin>>

\* What find_influences returns: all_, weighted_, or all_ without weighted_.
FindResult(all, nonzero, weighted, unused) ==
    LET weighted_ == SelectSeq(all, LAMBDA j : j \in nonzero) IN
    IF unused /\ weighted THEN all
    ELSE IF weighted THEN weighted_
    ELSE SelectSeq(all, LAMBDA j : j \notin Range(weighted_))

\* find_influences(node, weighted, unused) on a skinned mesh.
FindInfluences(weighted, unused) ==
    /\ skcName # <<>>
    /\ call' = [op |-> "find_influences", attr |-> <<>>, where |-> "", index |-> 0,
                flags |-> (IF weighted THEN {"weighted"} ELSE {})
                              \cup (IF unused THEN {"unused"} ELSE {})]
    /\ ret' = [exc |-> "none", log |-> FALSE,
               plug |-> FindResult(skcInfluences, skcWeighted, weighted, unused)]
    /\ UNCHANGED <<baseVars, unlockVars, selVars, undoVars, mayaVars, skinVars, afterSkin>>

\* add_influences(node, influences)
AddInfluences(influences, w) ==
    /\ call' = [op |-> "add_influences", attr |-> influences, where |-> "", index |-> 0, flags |-> {}]
    /\ IF skcName = <<>>
       THEN /\ w = {}
            /\ ret' = [exc |-> "none", log |-> TRUE, plug |-> <<>>]
            /\ UNCHANGED skinVars
       ELSE LET delta == SkinDelta(influences, skcInfluences) IN
            /\ w \subseteq Range(delta)
            /\ skcInfluences' = skcInfluences \o delta
            /\ skcWeighted' = skcWeighted \cup w
            /\ ret' = NoRet
            /\ UNCHANGED <<skcName, skcMethod>>
    /\ UNCHANGED <<baseVars, unlockVars, selVars, undoVars, mayaVars, afterSkin>>

\* The skincluster after cmds.skinCluster(skc, edit=True, removeInfluence=inf);
\* when every weighted influence goes, the host gives the weights to
\* influences w that stay.
SkinRemove(inf, w) ==
    LET stay == SelectSeq(skcInfluences, LAMBDA j : j \notin inf)
        nonzero == skcWeighted \ inf
    IN  /\ w \subseteq Range(stay)
        /\ IF nonzero = {} /\ stay # <<>> THEN w # {} ELSE w = {}
        /\ skcInfluences' = stay
        /\ skcWeighted' = nonzero \cup w
        /\ UNCHANGED <<skcName, skcMethod>>

\* remove_influences(node, influences)
RemoveInfluences(influences, w) ==
    /\ call' = [op |-> "remove_influences", attr |-> influences, where |-> "", index |-> 0, flags |-> {}]
    /\ IF skcName = <<>>
       THEN /\ w = {}
            /\ ret' = [exc |-> "RuntimeError", log |-> FALSE, plug |-> <<>>]
            /\ UNCHANGED skinVars
       ELSE /\ SkinRemove(Range(influences)
                              \cap Range(FindResult(skcInfluences, skcWeighted, TRUE, TRUE)), w)
            /\ ret' = NoRet
    /\ UNCHANGED <<baseVars, unlockVars, selVars, undoVars, mayaVars, afterSkin>>

\* remove_unused_influences(node) on a skinned mesh.
RemoveUnusedInfluences ==
    LET unused == FindResult(skcInfluences, skcWeighted, FALSE, TRUE) IN
    /\ skcName # <<>>
    /\ call' = [op |-> "remove_unused_influences", attr |-> unused, where |-> "", index |-> 0, flags |-> {}]
    /\ SkinRemove(Range(unused)
                      \cap Range(FindResult(skcInfluences, skcWeighted, TRUE, TRUE)), {})
    /\ ret' = NoRet
    /\ UNCHANGED <<baseVars, unlockVars, selVars, undoVars, mayaVars, afterSkin>>

NextSkin ==
    \/ \E l \in InfluenceLists, m \in Methods, w \in SUBSET Range(SkinJoints) : SkinCreate(l, m, w)
    \/ \E l \in InfluenceLists, w \in SUBSET Range(SkinJoints) : HostSkinCluster(l, w)
    \/ \E w \in SUBSET Range(SkinJoints) : SkinPercent(w)
    \/ DeleteSkin
    \/ \E weighted \in BOOLEAN, unused \in BOOLEAN : FindInfluences(weighted, unused)
    \/ \E l \in InfluenceLists, w \in SUBSET Range(SkinJoints) : AddInfluences(l, w)
    \/ \E l \in InfluenceLists, w \in SUBSET Range(SkinJoints) : RemoveInfluences(l, w)
    \/ RemoveUnusedInfluences

SpecSkin == Init /\ [][NextSkin]_vars

----------------------------------------------------------------------------
(* Claims on skincluster.                                                  *)

\* C17: create on a mesh that has a skincluster, with a valid method, makes
\* no deformer: the skincluster, its name and its method stay, it is the
\* value returned, every influence it had stays in its place, the requested
\* influences it lacked are added, each once, and nothing else is; with
\* nothing lacking the influences are unchanged. An invalid method raises
\* ValueError and changes nothing.
C17_CreateOnSkinned ==
    [][(call'.op = "create" /\ skcName # <<>>) =>
        IF call'.where \in DOMAIN MethodIndex
        THEN /\ ret'.exc = "none"
             /\ call'.index = 0
             /\ ret'.plug = skcName
             /\ <<skcName', skcMethod'>> = <<skcName, skcMethod>>
             /\ SubSeq(skcInfluences', 1, Len(skcInfluences)) = skcInfluences
             /\ Range(skcInfluences') = Range(skcInfluences) \cup Range(call'.attr)
             /\ Len(skcInfluences') = Cardinality(Range(skcInfluences'))
             /\ Range(call'.attr) \subseteq Range(skcInfluences) => skcInfluences' = skcInfluences
        ELSE /\ ret'.exc = "ValueError"
             /\ UNCHANGED skinVars
    ]_vars

\* create(cube, [A, C]) on a skincluster the host made with A and B: C is
\* added and the host's skincluster returned.
C17_Witness ==
    /\ call.op = "create"
    /\ call.attr = <<"A", "C">>
    /\ call.index = 0
    /\ ret.plug = HostSkinName
    /\ skcInfluences = <<"A", "B", "C">>
    /\ skcName = HostSkinName

\* C18: remove_influences on a mesh without skincluster logs an error,
\* raises nothing and changes nothing, as add_influences does.
C18_RemoveOnUnskinned ==
    [][((call'.op = "remove_influences" \/ call'.op = "add_influences") /\ skcName = <<>>) =>
        /\ ret'.exc = "none"
        /\ ret'.log
        /\ UNCHANGED skinVars
    ]_vars

\* C19: find_influences returns the influences with a non-zero weight when
\* `weighted` is set, together with those without when `unused` is set, and
\* no other.
C19_FlagsSelect ==
    [][call'.op = "find_influences" =>
        Range(ret'.plug) =
            (IF "weighted" \in call'.flags THEN Range(skcInfluences) \cap skcWeighted ELSE {})
            \cup (IF "unused" \in call'.flags THEN Range(skcInfluences) \ skcWeighted ELSE {})
    ]_vars

----------------------------------------------------------------------------
(* joint.auto_radius                                                       *)

\* The joints of the docstring, in creation order, and where they are in
\* world space, on the x axis.
JointNames == <<"a", "b", "c">>
JointPos == [j \in Range(JointNames) |-> CASE j = "a" -> 0 [] j = "b" -> 4 [] j = "c" -> 10]

\* The radius of a new joint, 1.0, in tenths.
DefaultRadius == 10

\* The `method` arguments: the three valid ones and one that is not.
RadiusMethods == {"minimum", "maximum", "average", "invalid"}

\* The `multiplier` arguments.
Multipliers == {1, 2}

\* cmds.listRelatives(root, children=True, type="joint") or []
Children(par, root) ==
    SelectSeq(JointNames, LAMBDA k : k \in DOMAIN par /\ par[k] = root)

\* root_pos.distanceTo(get_point(child))
Distance(root, child) ==
    IF JointPos[root] >= JointPos[child] THEN JointPos[root] - JointPos[child]
    ELSE JointPos[child] - JointPos[root]

RECURSIVE SumOf(_)
SumOf(s) == IF s = <<>> THEN 0 ELSE Head(s) + SumOf(Tail(s))

MinOf(s) == CHOOSE x \in Range(s) : \A y \in Range(s) : x <= y
MaxOf(s) == CHOOSE x \in Range(s) : \A y \in Range(s) : x >= y

\* The joints are placed so that every average is a whole number.
Average(s) == SumOf(s) \div Len(s)

\* auto_radius(root, method, multiplier, recursive): the recursion into each
\* child while the distances are gathered, then the choice of the value and
\* cmds.setAttr(root + ".radius", value * 0.1 * multiplier), in tenths.
RECURSIVE AutoRadiusRun(_, _, _, _, _, _)
RECURSIVE AutoRadiusChildren(_, _, _, _, _, _)
AutoRadiusChildren(st, par, kids, method, multiplier, recursive) ==
    IF kids = <<>> \/ st.exc # "none" THEN st
    ELSE AutoRadiusChildren(
             AutoRadiusRun(st, par, Head(kids), method, multiplier, recursive),
             par, Tail(kids), method, multiplier, recursive)

AutoRadiusRun(st, par, root, method, multiplier, recursive) ==
    LET kids == Children(par, root)
        distances == [i \in 1..Len(kids) |-> Distance(root, kids[i])]
        st1 == IF recursive
               THEN AutoRadiusChildren(st, par, kids, method, multiplier, recursive)
               ELSE st
        set(value) == [st1 EXCEPT !.radius[root] = value * multiplier]
    IN  IF st1.exc # "none" THEN st1
        ELSE IF distances = <<>> THEN set(10)
        ELSE IF method = "average" THEN set(Average(distances))
        ELSE IF method = "minimum" THEN set(MinOf(distances))
        ELSE IF method = "maximum" THEN set(MaxOf(distances))
        ELSE [st1 EXCEPT !.exc = "ValueError"]

AutoRadius(root, method, multiplier, recursive) ==
    LET st == AutoRadiusRun([radius |-> jRadius, exc |-> "none"],
                            jParent, root, method, multiplier, recursive)
    IN  /\ root \in DOMAIN jParent
        /\ jRadius' = st.radius
        /\ call' = [op |-> "auto_radius", attr |-> <<root>>, where |-> method,
                    index |-> multiplier,
                    flags |-> IF recursive THEN {"recursive"} ELSE {}]
        /\ ret' = [exc |-> st.exc, log |-> FALSE, plug |-> <<>>]
        /\ UNCHANGED <<jParent, baseVars, unlockVars, selVars, undoVars, mayaVars, skinVars, afterJoint>>

\* cmds.createNode("joint", parent=parent), "" for the world.
CreateJoint(j, parent) ==
    /\ j \notin DOMAIN jParent
    /\ parent \in DOMAIN jParent \cup {""}
    /\ jParent' = [k \in DOMAIN jParent \cup {j} |-> IF k = j THEN parent ELSE jParent[k]]
    /\ jRadius' = [k \in DOMAIN jParent \cup {j} |-> IF k = j THEN DefaultRadius ELSE jRadius[k]]
    /\ call' = [op |-> "createNode", attr |-> <<j>>, where |-> parent, index |-> 0, flags |-> {}]
    /\ ret' = NoRet
    /\ UNCHANGED <<baseVars, unlockVars, selVars, undoVars, mayaVars, skinVars, afterJoint>>

\* The joint j or one of its descendants.
RECURSIVE InSubtree(_, _, _)
InSubtree(par, k, j) ==
    k = j \/ (par[k] # "" /\ InSubtree(par, par[k], j))

\* cmds.delete(j): the joint goes with its descendants.
DeleteJoint(j) ==
    /\ j \in DOMAIN jParent
    /\ jParent' = [k \in {k \in DOMAIN jParent : ~InSubtree(jParent, k, j)} |-> jParent[k]]
    /\ jRadius' = [k \in DOMAIN jParent' |-> jRadius[k]]
    /\ call' = [op |-> "delete", attr |-> <<j>>, where |-> "", index |-> 0, flags |-> {}]
    /\ ret' = NoRet
    /\ UNCHANGED <<baseVars, unlockVars, selVars, undoVars, mayaVars, skinVars, afterJoint>>

NextJoint ==
    \/ \E j \in Range(JointNames), parent \in Range(JointNames) \cup {""} : CreateJoint(j, parent)
    \/ \E j \in Range(JointNames) : DeleteJoint(j)
    \/ \E root \in Range(JointNames), method \in RadiusMethods, multiplier \in Multipliers,
          recursive \in BOOLEAN : AutoRadius(root, method, multiplier, recursive)

SpecJoint == Init /\ [][NextJoint]_vars

----------------------------------------------------------------------------
(* Claims on joint.auto_radius.                                            *)

\* C20: auto_radius raises ValueError for every method that is not
\* 'minimum', 'maximum' or 'average', whatever the root joint and
\* `recursive` are.
C20_InvalidMethodRaises ==
    [][(call'.op = "auto_radius" /\ call'.where \notin {"minimum", "maximum", "average"}) =>
        ret'.exc = "ValueError"
    ]_vars

----------------------------------------------------------------------------
(* selection.mirror and search.mirror: the two functions have the same     *)
(* text, so one operator models both.                                      *)

\* The names mirror is called with, and the names the scene's nodes may have.
MirrorNames ==
    { <<"L", "a">>, <<"R", "a">>, <<"L", "R", "a">>, <<"L", "L", "a">>,
      <<"R", "R", "a">>, <<"L", "L", "L", "L", "a">>, <<"a">> }

\* The values of `patterns` mirror is called with: one pattern in both
\* orders, parts of which one contains the other, two patterns, a pattern
\* without ":" and no pattern at all.
PatternLists ==
    << << <<"L", ":", "R">> >>,
       << <<"R", ":", "L">> >>,
       << <<"L", "L", ":", "L">> >>,
       << <<"L", ":", "L", "L">> >>,
       << <<"b", ":", "c">>, <<"L", ":", "R">> >>,
       << <<"L", "R">> >>,
       << >> >>

\* The outcome of mirror when nothing is found.
MirrorNone == <<"None">>

\* for current, opposite in itertools.permutations((left, right)): the first
\* `current` that occurs in the node decides.
MirrorPair(scene, node, left, right) ==
    LET try(current, opposite) ==
            LET opposite_node == Replace(node, current, opposite) IN
            IF ObjExists(scene, opposite_node) THEN opposite_node ELSE MirrorNone
    IN  IF Contains(node, left) THEN <<TRUE, try(left, right)>>
        ELSE IF Contains(node, right) THEN <<TRUE, try(right, left)>>
        ELSE <<FALSE, MirrorNone>>

\* for pattern in patterns, from the i-th on: [exception, result].
RECURSIVE MirrorLoop(_, _, _, _)
MirrorLoop(scene, node, patterns, i) ==
    IF i > Len(patterns) THEN <<"none", MirrorNone>>
    ELSE LET parts == Split(patterns[i], ":", <<>>) IN
         IF Len(parts) # 2 THEN <<"ValueError", MirrorNone>>
         ELSE LET found == MirrorPair(scene, node, parts[2], parts[1]) IN
              IF found[1] THEN <<"none", found[2]>>
              ELSE MirrorLoop(scene, node, patterns, i + 1)

\* mirror(node, patterns), patterns being PatternLists[index]
Mirror(node, index) ==
    LET out == MirrorLoop(nodes, node, PatternLists[index], 1) IN
    /\ uPc = "idle"
    /\ call' = [op |-> "mirror", attr |-> node, where |-> "", index |-> index, flags |-> {}]
    /\ ret' = [exc |-> out[1], log |-> FALSE, plug |-> out[2]]
    /\ UNCHANGED <<attrVars, sceneVars, uniqueVars, copyVars, extVars>>

NextMirror ==
    \/ \E n \in MirrorNames : CreateNode(n, <<>>)
    \/ \E q \in nodes : DeleteNode(q)
    \/ \E n \in MirrorNames, i \in 1..Len(PatternLists) : Mirror(n, i)

SpecMirror == Init /\ [][NextMirror]_vars

----------------------------------------------------------------------------
(* Claims on mirror.                                                       *)

\* A pattern with its two parts in the other order.
Swapped(pattern) ==
    LET parts == Split(pattern, ":", <<>>) IN parts[2] \o <<":">> \o parts[1]

\* The parts of the patterns that occur in a name.
PartsIn(node, patterns) ==
    {part \in UNION {Range(Split(patterns[i], ":", <<>>)) : i \in 1..Len(patterns)} :
        Contains(node, part)}

\* C21: for patterns 'X:Y', mirror gives the same result with the parts of
\* every pattern in the other order; it gives None when no part occurs in
\* the name; a result that is not None names a node of the scene; and the
\* mirror of the result is the name again when the name holds exactly one
\* part of the patterns and the name is a node of the scene.
C21_MirrorContract ==
    [][(call'.op = "mirror" /\ ret'.exc = "none") =>
        LET node == call'.attr
            patterns == PatternLists[call'.index]
            swapped == [i \in 1..Len(patterns) |-> Swapped(patterns[i])]
        IN
        /\ MirrorLoop(nodes', node, swapped, 1) = <<"none", ret'.plug>>
        /\ PartsIn(node, patterns) = {} => ret'.plug = MirrorNone
        /\ ret'.plug # MirrorNone => ObjExists(nodes', ret'.plug)
        /\ (/\ ret'.plug # MirrorNone
            /\ Cardinality(PartsIn(node, patterns)) = 1
            /\ ObjExists(nodes', node)) =>
               MirrorLoop(nodes', ret'.plug, patterns, 1) = <<"none", node>>
    ]_vars

----------------------------------------------------------------------------
(* visibility.is_visible                                                   *)

\* The short names of the nodes the scene may hold when is_visible is called.
VisNames == {<<"A">>, <<"B">>}

\* cmds.setAttr(node + ".visibility", value), the node given by its full path
SetVisibility(q, value) ==
    /\ uPc = "idle"
    /\ q \in nodes
    /\ hidden' = IF value THEN hidden \ {q} ELSE hidden \cup {q}
    /\ call' = [op |-> "setAttr", attr |-> FullPath(q), where |-> "", index |-> 0,
                flags |-> {}]
    /\ ret' = NoRet
    /\ UNCHANGED <<baseVars, unlockVars, selVars, undoVars, mayaVars, skinVars, jointVars, afterVis>>

\* while "|" in path: path, tail = path.rsplit("|", 1), for the full path q
\* cut down to its first k names. getAttr(tail + ".visibility") names the
\* node by its short name alone; the host refuses a name that denotes
\* several nodes (ValueError). [exception, result]
RECURSIVE VisibleWalk(_, _, _, _)
VisibleWalk(scene, off, q, k) ==
    IF k = 0 THEN <<"none", <<"True">> >>
    ELSE LET tail == q[k]
             targets == Denotes(scene, tail)
         IN  IF Cardinality(targets) # 1 THEN <<"ValueError", <<>> >>
             ELSE IF targets \subseteq off THEN <<"none", <<"False">> >>
             ELSE VisibleWalk(scene, off, q, k - 1)

\* is_visible(node): cmds.ls(node, long=True)[0] is q, one of the nodes the
\* name denotes; call.flags holds it.
IsVisible(node, q) ==
    LET out == VisibleWalk(nodes, hidden, q, Len(q)) IN
    /\ uPc = "idle"
    /\ q \in Denotes(nodes, node)
    /\ call' = [op |-> "is_visible", attr |-> node, where |-> "", index |-> 0,
                flags |-> {q}]
    /\ ret' = [exc |-> out[1], log |-> FALSE, plug |-> out[2]]
    /\ UNCHANGED <<baseVars, extVars>>

\* The names a caller has for the nodes of the scene.
VisInputs(scene) == {FullPath(q) : q \in scene} \cup {Leaf(q) : q \in scene}

NextVis ==
    \/ \E n \in VisNames, parent \in nodes \cup {<<>>} : CreateNode(n, parent)
    \/ \E q \in nodes, value \in BOOLEAN : SetVisibility(q, value)
    \/ \E node \in VisInputs(nodes), q \in nodes : IsVisible(node, q)

SpecVis == Init /\ [][NextVis]_vars

----------------------------------------------------------------------------
(* Claims on is_visible.                                                   *)

\* C22: is_visible(node) returns True when the visibility of the node and
\* of each of its ancestors is on, and False otherwise.
C22_VisibleIff ==
    [][call'.op = "is_visible" =>
        \A q \in call'.flags :
            /\ ret'.exc = "none"
            /\ ret'.plug = IF \A k \in 1..Len(q) : SubSeq(q, 1, k) \notin hidden'
                           THEN <<"True">> ELSE <<"False">>
    ]_vars

----------------------------------------------------------------------------
(* curve.from_transforms                                                   *)

\* The positions the transforms are moved to (the docstring's).
Positions == {<<0, 0, 0>>, <<5, 10, 0>>}

\* The values of `nodes`, `degree` and `method` from_transforms is called with.
TransformLists == {<<"a", "b", "c">>, <<"a", "b">>, <<"c">>}
Degrees == 1..3
CurveMethods == {"cv", "ep"}

\* cmds.setAttr(t + ".translate", *pos)
SetTranslate(t, pos) ==
    /\ tPos[t] # pos
    /\ tPos' = [tPos EXCEPT ![t] = pos]
    /\ call' = [op |-> "setAttr", attr |-> <<t>>, where |-> "", index |-> 0, flags |-> {}]
    /\ ret' = NoRet
    /\ UNCHANGED <<curveFlags, curveRig, baseVars, unlockVars, selVars, undoVars,
                   mayaVars, skinVars, jointVars, visVars, afterCurve>>

\* list(range(n))
Range0(n) == [i \in 1..n |-> i - 1]

\* The flags from_transforms hands to cmds.curve. flags["point"] and `point`
\* are one list: the knots are counted on the extended list.
CurveFlags(point, degree, close, method) ==
    LET extended == IF close
                    THEN point \o SubSeq(point, 1, IF degree < Len(point) THEN degree
                                                   ELSE Len(point))
                    ELSE point
    IN  [point |-> extended,
         degree |-> IF method = "ep" THEN 1 ELSE degree,
         periodic |-> close,
         knot |-> IF close THEN Range0(Len(extended) + degree - 1) ELSE <<>>]

\* What is built around the curve: the fitBspline of an ep curve (kept as
\* history, with the first shape hidden, when the curve is attached) and one
\* decomposeMatrix per node driving its cv.
CurveRig(list, method, attach) ==
    [fit |-> method = "ep",
     history |-> method = "ep" /\ attach,
     drivers |-> IF attach THEN list ELSE <<>>]

\* from_transforms(nodes, "curve", degree, close, method, attach)
FromTransforms(list, degree, close, method, attach) ==
    LET point == [i \in 1..Len(list) |-> tPos[list[i]]] IN
    /\ curveFlags' = CurveFlags(point, degree, close, method)
    /\ curveRig' = CurveRig(list, method, attach)
    /\ call' = [op |-> "from_transforms", attr |-> list, where |-> method,
                index |-> degree,
                flags |-> (IF close THEN {"close"} ELSE {}) \cup
                          (IF attach THEN {"attach"} ELSE {})]
    /\ ret' = [exc |-> "none", log |-> FALSE, plug |-> <<"curve">>]
    /\ UNCHANGED <<tPos, baseVars, unlockVars, selVars, undoVars, mayaVars, skinVars,
                   jointVars, visVars, afterCurve>>

NextCurve ==
    \/ \E t \in DOMAIN tPos, pos \in Positions : SetTranslate(t, pos)
    \/ \E list \in TransformLists, degree \in Degrees, close \in BOOLEAN,
          method \in CurveMethods, attach \in BOOLEAN :
            FromTransforms(list, degree, close, method, attach)

SpecCurve == Init /\ [][NextCurve]_vars

----------------------------------------------------------------------------
(* Claims on from_transforms.                                              *)

\* C23: with method "ep" the points, the degree and the knots handed to
\* cmds.curve are those of the same call with any other degree, whether the
\* curve is closed or not.
C23_DegreeIgnored ==
    [][(call'.op = "from_transforms" /\ call'.where = "ep") =>
        \A degree \in Degrees :
            LET list == call'.attr
                point == [i \in 1..Len(list) |-> tPos'[list[i]]]
                other == CurveFlags(point, degree, "close" \in call'.flags, "ep")
            IN  /\ other.point = curveFlags'.point
                /\ other.degree = curveFlags'.degree
                /\ other.knot = curveFlags'.knot
    ]_vars

----------------------------------------------------------------------------
(* attribute.write_data and attribute.read_data, on one node "data".       *)
(*                                                                         *)
(* A Python value is a sequence of triples: a header <<kind, "", 0>> with  *)
(* kind "list" or "dict", then one triple per entry, <<"", "", v>> for an  *)
(* item of a list and <<"str", key, v>> for an entry of a dict; the keys   *)
(* of a dict are strings, as the type of `data` says.                      *)

\* The names of the attributes of the node.
DataNames == {"test", "other"}

\* The values of `data`: [], [1, 2], {"a": 1} and {"1": 2}.
DataValues ==
    { << <<"list", "", 0>> >>,
      << <<"list", "", 0>>, <<"", "", 1>>, <<"", "", 2>> >>,
      << <<"dict", "", 0>>, <<"str", <<"a">>, 1>> >>,
      << <<"dict", "", 0>>, <<"str", <<"1">>, 2>> >> }

\* json.dumps of one entry
DumpEntry(e) ==
    IF e[1] = "" THEN Digits(e[3])
    ELSE <<"\"">> \o e[2] \o <<"\"", ":", " ">> \o Digits(e[3])

RECURSIVE DumpEntries(_)
DumpEntries(es) ==
    IF es = <<>> THEN <<>>
    ELSE IF Len(es) = 1 THEN DumpEntry(es[1])
    ELSE DumpEntry(es[1]) \o <<",", " ">> \o DumpEntries(Tail(es))

\* json.dumps(data)
Dumps(data) ==
    IF data[1][1] = "list" THEN <<"[">> \o DumpEntries(Tail(data)) \o <<"]">>
    ELSE <<"{">> \o DumpEntries(Tail(data)) \o <<"}">>

\* json.loads of one entry of a list or of a dict; <<>> when it is none.
LoadEntry(text, kind) ==
    LET t == IF text # <<>> /\ Head(text) = " " THEN Tail(text) ELSE text
        isInt(x) == x # <<>> /\ \A i \in 1..Len(x) : x[i] \in Range(DigitChars)
    IN  IF kind = "list"
        THEN IF isInt(t) THEN << <<"", "", ParseInt(t)>> >> ELSE <<>>
        ELSE LET kv == Split(t, ":", <<>>) IN
             IF /\ Len(kv) = 2
                /\ Len(kv[1]) >= 2 /\ Head(kv[1]) = "\"" /\ kv[1][Len(kv[1])] = "\""
                /\ kv[2] # <<>> /\ Head(kv[2]) = " " /\ isInt(Tail(kv[2]))
             THEN << <<"str", SubSeq(kv[1], 2, Len(kv[1]) - 1), ParseInt(Tail(kv[2]))>> >>
             ELSE <<>>

\* json.loads(string): [exception, value]
Loads(string) ==
    LET n == Len(string)
        kind == IF n >= 2 /\ string[1] = "[" /\ string[n] = "]" THEN "list"
                ELSE IF n >= 2 /\ string[1] = "{" /\ string[n] = "}" THEN "dict"
                ELSE ""
        inner == SubSeq(string, 2, n - 1)
        texts == IF inner = <<>> THEN <<>> ELSE Split(inner, ",", <<>>)
        entries == [i \in 1..Len(texts) |-> LoadEntry(texts[i], kind)]
    IN  IF kind = "" \/ \E i \in 1..Len(texts) : entries[i] = <<>>
        THEN <<"ValueError", <<>> >>
        ELSE <<"none", << <<kind, "", 0>> >> \o [i \in 1..Len(texts) |-> entries[i][1]]>>

\* The bytes of the texts, and the letter base64 writes for each (base64
\* is kept to one letter for one byte).
Bytes == <<"x", "[", "]", "{", "}", ",", " ", ":", "\"", "1", "2", "a">>
Base64Letters == <<"e", "J", "y", "L", "N", "t", "R", "M", "b", "n", "A", "g">>

\* codecs.encode(bytes, "zlib"): a stream that starts with its header.
ZlibEncode(bytes) == <<"x">> \o bytes

\* codecs.decode(bytes, "zlib"): [exception, bytes]
ZlibDecode(bytes) ==
    IF bytes # <<>> /\ Head(bytes) = "x" THEN <<"none", Tail(bytes)>>
    ELSE <<"zlib.error", <<>> >>

\* codecs.encode(bytes, "base64"): the letters and a new line.
Base64Encode(bytes) ==
    [i \in 1..Len(bytes) |-> Base64Letters[IndexOf(Bytes, bytes[i])]] \o <<"\n">>

\* codecs.decode(text, "base64"): characters that are no letters of base64
\* are discarded.
Base64Decode(text) ==
    LET letters == SelectSeq(text, LAMBDA c : c \in Range(Base64Letters)) IN
    [i \in 1..Len(letters) |-> Bytes[IndexOf(Base64Letters, letters[i])]]

\* repr() of a bytes object of Python 3: b'...' with the new line escaped.
RECURSIVE Escaped(_)
Escaped(bytes) ==
    IF bytes = <<>> THEN <<>>
    ELSE (IF Head(bytes) = "\n" THEN <<"\\", "n">> ELSE <<Head(bytes)>>)
         \o Escaped(Tail(bytes))

\* str(bytes): the bytes themselves for Python 2, their repr() for Python 3.
StrOfBytes(bytes, py3) ==
    IF py3 THEN <<"b", "'">> \o Escaped(bytes) \o <<"'">> ELSE bytes

\* The string write_data stores.
WriteString(data, compress, py3) ==
    IF compress THEN StrOfBytes(Base64Encode(ZlibEncode(Dumps(data))), py3)
    ELSE Dumps(data)

\* write_data("data", name, data, compress) under Python 2 or 3
WriteData(name, data, compress, py3) ==
    /\ dataAttrs' = [a \in DOMAIN dataAttrs \cup {name} |->
                        IF a = name THEN WriteString(data, compress, py3)
                        ELSE dataAttrs[a]]
    /\ dataLast' = [a \in DOMAIN dataAttrs \cup {name} |->
                        IF a = name THEN [data |-> data, compress |-> compress]
                        ELSE dataLast[a]]
    /\ call' = [op |-> "write_data", attr |-> <<name>>, where |-> "", index |-> 0,
                flags |-> (IF compress THEN {"compress"} ELSE {}) \cup
                          (IF py3 THEN {"py3"} ELSE {})]
    /\ ret' = NoRet
    /\ UNCHANGED <<baseVars, unlockVars, selVars, undoVars, mayaVars, skinVars,
                   jointVars, visVars, curveVars, afterData>>

\* The outcome of read_data on a stored string: [exception, value]
ReadString(string, compressed) ==
    IF compressed
    THEN LET unzipped == ZlibDecode(Base64Decode(string)) IN
         IF unzipped[1] # "none" THEN unzipped ELSE Loads(unzipped[2])
    ELSE Loads(string)

\* read_data("data." + name, compressed)
ReadData(name, compressed) ==
    LET out == ReadString(dataAttrs[name], compressed) IN
    /\ name \in DOMAIN dataAttrs
    /\ call' = [op |-> "read_data", attr |-> <<name>>, where |-> "", index |-> 0,
                flags |-> IF compressed THEN {"compress"} ELSE {}]
    /\ ret' = [exc |-> out[1], log |-> FALSE, plug |-> out[2]]
    /\ UNCHANGED <<baseVars, extVars>>

\* cmds.deleteAttr("data." + name)
DeleteData(name) ==
    /\ name \in DOMAIN dataAttrs
    /\ dataAttrs' = [a \in DOMAIN dataAttrs \ {name} |-> dataAttrs[a]]
    /\ dataLast' = [a \in DOMAIN dataAttrs \ {name} |-> dataLast[a]]
    /\ call' = [op |-> "deleteAttr", attr |-> <<name>>, where |-> "", index |-> 0,
                flags |-> {}]
    /\ ret' = NoRet
    /\ UNCHANGED <<baseVars, unlockVars, selVars, undoVars, mayaVars, skinVars,
                   jointVars, visVars, curveVars, afterData>>

NextData ==
    \/ \E name \in DataNames, data \in DataValues, compress \in BOOLEAN, py3 \in BOOLEAN :
          WriteData(name, data, compress, py3)
    \/ \E name \in DataNames, compressed \in BOOLEAN : ReadData(name, compressed)
    \/ \E name \in DataNames : DeleteData(name)

SpecData == Init /\ [][NextData]_vars

----------------------------------------------------------------------------
(* Claims on write_data and read_data.                                     *)

\* C24: read_data with the flag of the last write_data on the attribute
\* raises nothing and returns a value equal to the data that was written;
\* write_data leaves the node with the attribute and touches no other.
C24_RoundTrip ==
    [][/\ (call'.op = "read_data" /\
           ("compress" \in call'.flags) = dataLast'[call'.attr[1]].compress) =>
              /\ ret'.exc = "none"
              /\ ret'.plug = dataLast'[call'.attr[1]].data
       /\ call'.op = "write_data" =>
              /\ DOMAIN dataAttrs' = DOMAIN dataAttrs \cup {call'.attr[1]}
              /\ \A a \in DOMAIN dataAttrs \ {call'.attr[1]} : dataAttrs'[a] = dataAttrs[a]
    ]_vars

----------------------------------------------------------------------------
(* attribute.reset, on one transform with the string attribute "notes".    *)

\* The attributes reset is asked about: two numeric ones, a compound, an
\* element of a multi, a string and one the node does not have.
ResetAttrs == {"translateX", "scaleX", "translate", "worldMatrix[0]", "notes", "missing"}

ResetKind(attr) ==
    CASE attr \in {"translateX", "scaleX"} -> "double"
      [] attr = "translate" -> "double3"
      [] attr = "worldMatrix[0]" -> "multi"
      [] attr = "notes" -> "string"
      [] OTHER -> "missing"

\* cmds.attributeQuery(attr, node=node, listDefault=True)[0] of a numeric
\* attribute or of a compound of numeric attributes.
ResetDefault(attr) == IF attr = "scaleX" THEN 1 ELSE 0

\* The values the numeric attributes are set to (the docstring's).
ResetValues == {0, 1, 3, 10}

\* cmds.listAttr(node, keyable=True)
Keyable == <<"translateX", "scaleX">>

\* The values of `attributes`; <<>> stands for None and for an empty list,
\* which `attributes or ...` treats alike.
ResetLists ==
    { <<>>, <<"worldMatrix[0]">>, <<"scaleX", "translateX">>,
      <<"translate", "scaleX">>, <<"worldMatrix[0]", "translateX">>,
      <<"notes", "scaleX">>, <<"missing", "translateX">> }

\* One iteration of `for attr in ...`. The host raises ValueError for a plug
\* that does not exist (272), gives no default for an attribute that is not
\* numeric, so that [0] raises TypeError (275), and raises RuntimeError when
\* a compound is set to one number or when the attribute does not take a
\* default query (275-276). An element of a multi that is only written by
\* the node is reported settable or not: both outcomes of the host are kept.
ResetOne(st, attr, multiSettable) ==
    LET kind == ResetKind(attr)
        settable == CASE kind = "double" -> attr \notin st.locked
                      [] kind = "double3" -> "translateX" \notin st.locked
                      [] kind = "multi" -> multiSettable
                      [] OTHER -> attr \notin st.locked
    IN  IF st.exc # "none" THEN st
        ELSE IF kind = "missing" THEN [st EXCEPT !.exc = "ValueError"]
        ELSE IF ~settable THEN st
        ELSE IF kind = "string" THEN [st EXCEPT !.exc = "TypeError"]
        ELSE IF kind \in {"double3", "multi"} THEN [st EXCEPT !.logged = Append(@, attr)]
        ELSE [st EXCEPT !.value[attr] = ResetDefault(attr)]

RECURSIVE ResetLoop(_, _, _, _)
ResetLoop(st, list, i, multiSettable) ==
    IF i > Len(list) THEN st
    ELSE ResetLoop(ResetOne(st, list[i], multiSettable), list, i + 1, multiSettable)

\* reset(node, attributes)
Reset(attributes, multiSettable) ==
    LET list == IF attributes # <<>> THEN attributes ELSE Keyable
        st == ResetLoop([value |-> rValue, locked |-> rLocked, logged |-> <<>>,
                         exc |-> "none"], list, 1, multiSettable)
    IN  /\ rValue' = st.value
        /\ call' = [op |-> "reset", attr |-> attributes, where |-> "", index |-> 0,
                    flags |-> IF multiSettable THEN {"multiSettable"} ELSE {}]
        /\ ret' = [exc |-> st.exc, log |-> st.logged # <<>>, plug |-> st.logged]
        /\ UNCHANGED <<rLocked, baseVars, unlockVars, selVars, undoVars, mayaVars,
                       skinVars, jointVars, visVars, curveVars, dataVars>>

\* cmds.setAttr(node + "." + attr, value) on a numeric attribute
ResetSetAttr(attr, value) ==
    /\ attr \in DOMAIN rValue
    /\ attr \notin rLocked
    /\ rValue[attr] # value
    /\ rValue' = [rValue EXCEPT ![attr] = value]
    /\ call' = [op |-> "setAttr", attr |-> <<attr>>, where |-> "", index |-> 0,
                flags |-> {}]
    /\ ret' = NoRet
    /\ UNCHANGED <<rLocked, baseVars, unlockVars, selVars, undoVars, mayaVars,
                   skinVars, jointVars, visVars, curveVars, dataVars>>

\* cmds.setAttr(node + "." + attr, lock=value)
ResetSetLock(attr, value) ==
    /\ ResetKind(attr) \in {"double", "string"}
    /\ (attr \in rLocked) # value
    /\ rLocked' = IF value THEN rLocked \cup {attr} ELSE rLocked \ {attr}
    /\ call' = [op |-> "setAttr", attr |-> <<attr>>, where |-> "lock", index |-> 0,
                flags |-> {}]
    /\ ret' = NoRet
    /\ UNCHANGED <<rValue, baseVars, unlockVars, selVars, undoVars, mayaVars,
                   skinVars, jointVars, visVars, curveVars, dataVars>>

NextReset ==
    \/ \E attr \in ResetAttrs, value \in ResetValues : ResetSetAttr(attr, value)
    \/ \E attr \in ResetAttrs, value \in BOOLEAN : ResetSetLock(attr, value)
    \/ \E attributes \in ResetLists, multiSettable \in BOOLEAN :
          Reset(attributes, multiSettable)

SpecReset == Init /\ [][NextReset]_vars

----------------------------------------------------------------------------
(* Claims on reset.                                                        *)

\* The attributes a call of reset goes through.
ResetListOf(attributes) == IF attributes # <<>> THEN attributes ELSE Keyable

\* C25: reset raises nothing; a locked attribute keeps its value; a numeric
\* attribute of the list that is not locked has its default value
\* afterwards; whatever is logged is an attribute of the list that could not
\* be queried or set.
C25_ResetNeverRaises ==
    [][call'.op = "reset" =>
        LET list == ResetListOf(call'.attr) IN
        /\ ret'.exc = "none"
        /\ \A a \in DOMAIN rValue :
              rValue'[a] = IF a \in Range(list) /\ a \notin rLocked
                           THEN ResetDefault(a) ELSE rValue[a]
        /\ \A a \in Range(ret'.plug) :
              a \in Range(list) /\ ResetKind(a) \notin {"double"}
    ]_vars

----------------------------------------------------------------------------
(* Claims on copy with fatal=True.                                         *)

\* The entries of a list that copy does not skip.
IsTop(list, i) == ParentOf(list[i]) = ""

\* The places of a list whose attribute is on the destination when copy gets
\* there: it was there before the call, or an earlier entry names it.
Conflicts(list, before) ==
    {i \in 1..Len(list) :
        /\ IsTop(list, i)
        /\ list[i] \in before \/ \E j \in 1..(i - 1) : list[j] = list[i]}

\* C26: copy with fatal=True raises AttributeError at the first entry of the
\* list that is on the destination already and returns nothing; what it
\* created for the entries before that one is on the destination
\* afterwards, with the source's values when values are copied; nothing is
\* created for the entries after it, and no attribute that was there before
\* the call is removed or gets another value.
C26_FatalNoRollback ==
    [][(call'.op = "copy" /\ "fatal" \in call'.flags) =>
        LET list == CopyList(call'.attr, srcAttrs)
            conflicts == Conflicts(list, Range(dstAttrs))
        IN  conflicts # {} =>
            LET k == CHOOSE i \in conflicts : \A j \in conflicts : i <= j
                earlier == UNION {Range(WithNested(list[j])) :
                                    j \in {j \in 1..(k - 1) : IsTop(list, j)}}
            IN  /\ ret'.exc = "AttributeError"
                /\ ret'.plug = <<>>
                /\ Range(dstAttrs') = Range(dstAttrs) \cup earlier
                /\ \A a \in DOMAIN dstVal : dstVal'[a] = dstVal[a]
                /\ \A a \in (earlier \cap Valued) :
                      dstVal'[a] = IF "values" \in call'.flags THEN srcVal[a]
                                   ELSE DefaultValue
    ]_vars

\* A copy that created T, raised at S, which the destination had, and never
\* got to the compound P.
C26_Witness ==
    /\ call.op = "copy"
    /\ call.attr = <<"T", "S", "P">>
    /\ "fatal" \in call.flags
    /\ ret.exc = "AttributeError"
    /\ {"S", "T"} \subseteq Range(dstAttrs)
    /\ "P" \notin Range(dstAttrs)
    /\ "P" \in Range(srcAttrs)

====
